---- MODULE Spec2Model ----
(***************************************************************************)
(* Model of ComercialTools_Streamlit:                                      *)
(*   - colectar_xml_pdf_desde_adjuntos (pages/1_Renombrado_XML_PDF.py and   *)
(*     pages/2_Validacion_Confirming.py): the bounded archive worklist;     *)
(*   - emparejar_y_reportar / pdf_contiene_datos (utils/core.py): the       *)
(*     greedy XML <-> PDF matcher.                                          *)
(* File names and page texts are strings; the string helpers below compute *)
(* what the Python string methods compute on them.                         *)
(***************************************************************************)
EXTENDS Integers, Sequences, FiniteSets, TLC

VARIABLES
    \* ---- colectar_xml_pdf_desde_adjuntos ----
    uploads,        \* the argument: sequence of [name, size]
    max_depth,      \* the argument max_depth
    exclude_r_xml,  \* the argument exclude_r_xml (page 2; FALSE is page 1)
    has_py7zr,      \* _HAS_PY7ZR
    has_rar,        \* _HAS_RAR
    cpc,            \* "load" | "loop" | "done" | "aborted"
    k,              \* uploads read so far by the initial loop
    total_bytes,
    q,              \* the deque: sequence of [name, size, depth]
    xml_files,      \* sequence of [filename, size]
    pdf_files,
    warnings,       \* names passed to st.warning (depth pruning)
    st_errors,      \* names passed to st.error (container could not be read)
    log,            \* history: one record per container taken from the queue
    \* ---- emparejar_y_reportar ----
    in_xml,         \* the argument xml_files: sequence of [filename, content]
    in_pdf,         \* the argument pdf_files: sequence of [filename, content]
    mpc,            \* "run" | "done"
    xi,             \* XML records handled so far by the for loop
    usados_pdf_idx,
    resultado_ordenado,
    errores,
    matches_lines,
    reporte_rows,
    reporte_errores_txt,
    pareja,         \* history: per handled XML record, the index of its PDF (0: none)
    \* ---- extraer_datos_xml_bytes / _extract_xml_meta ----
    xml_bytes,      \* the argument: a document [parses, nodes, raw]
    epc,            \* "call" | "done"
    extracted,      \* what extraer_datos_xml_bytes returned
    meta,           \* what _extract_xml_meta returned
    \* ---- build_id_facturas_por_ruc ----
    ix_files,       \* the argument xml_files: sequence of [filename, content]
    ipc,            \* "run" | "done"
    ix_n,           \* records handled so far by the for loop
    idx,            \* the dict being built: function from RUC to a set of ids
    \* ---- _best_by_numeric_suffix ----
    numero_excel,   \* the arguments
    candidatos,
    spc,            \* "call" | "done"
    best,           \* the value returned
    \* ---- validar_confirming_excel ----
    id_facturas_por_ruc,  \* the argument: function from RUC to a set of ids
    df,             \* the rows of the sheet, "Documento" as rewritten so far
    vpc,            \* "reconcile" | "validate" | "write" | "done"
    vi,             \* rows handled so far by the current loop
    errores_val,    \* sequence of [fila, errores]
    sheets,         \* function from sheet name to the rows written to it
    \* ---- the sheets of the workbook: validar_confirming_excel and
    \*      validar_confirming_nombres_desde_xml_excel ----
    xls,            \* the workbook: sequence of [name, columns, rows]
    wpc,            \* "core_select" | "core_read" | "core_done" | "raised" |
                    \* "page_loop" | "page_done"
    hoja_obj,       \* the sheet validar_confirming_excel chose
    core_errores,   \* its errores: sequence of [fila, errores]
    core_sheets,    \* the sheets it wrote
    sh_n,           \* sheets handled so far by the loop of the page function
    sheets_out,     \* its sheets_out: sequence of [name, columns, rows]
    errores_rows    \* its errores_rows: sequence of [Hoja, Fila, Motivo]

cvars == <<uploads, max_depth, exclude_r_xml, has_py7zr, has_rar, cpc, k,
           total_bytes, q, xml_files, pdf_files, warnings, st_errors, log>>

mvars == <<in_xml, in_pdf, mpc, xi, usados_pdf_idx, resultado_ordenado, errores,
           matches_lines, reporte_rows, reporte_errores_txt, pareja>>

evars == <<xml_bytes, epc, extracted, meta>>

ivars == <<ix_files, ipc, ix_n, idx>>

svars == <<numero_excel, candidatos, spc, best>>

vvars == <<id_facturas_por_ruc, df, vpc, vi, errores_val, sheets>>

wvars == <<xls, wpc, hoja_obj, core_errores, core_sheets, sh_n, sheets_out, errores_rows>>

vars == <<cvars, mvars, evars, ivars, svars, vvars, wvars>>

\* what each operation leaves alone outside its own state
notCollector == <<mvars, evars, ivars, svars, vvars, wvars>>
notMatcher == <<cvars, evars, ivars, svars, vvars, wvars>>
notExtractor == <<cvars, mvars, ivars, svars, vvars, wvars>>
notIndexer == <<cvars, mvars, evars, svars, vvars, wvars>>
notReconciler == <<cvars, mvars, evars, ivars, vvars, wvars>>
notValidator == <<cvars, mvars, evars, ivars, svars, wvars>>
notWorkbook == <<cvars, mvars, evars, ivars, svars, vvars>>

\* the state of each of the other operations while one of them runs
EIdle == xml_bytes = <<>> /\ epc = "idle" /\ extracted = <<>> /\ meta = <<>>

IIdle == ix_files = <<>> /\ ipc = "idle" /\ ix_n = 0 /\ idx = <<>>

SIdle == numero_excel = "" /\ candidatos = {} /\ spc = "idle" /\ best = ""

VIdle ==
    /\ id_facturas_por_ruc = <<>> /\ df = <<>> /\ vpc = "idle" /\ vi = 0
    /\ errores_val = <<>> /\ sheets = <<>>

WIdle ==
    /\ xls = <<>> /\ wpc = "idle" /\ hoja_obj = "" /\ core_errores = <<>>
    /\ core_sheets = <<>> /\ sh_n = 0 /\ sheets_out = <<>> /\ errores_rows = <<>>

----------------------------------------------------------------------------
\* Bounds of the model
MaxUploads == 2
MaxEntries == 2
MaxItems == 3
MaxXml == 2
MaxPdf == 2

\* Program constants
MAX_DEPTH == 3
MAX_TOTAL_BYTES == 200 * 1024 * 1024

----------------------------------------------------------------------------
\* String helpers (str.lower, str.endswith, str.startswith, str.rfind)

UpperLetters == "ABCDEFGHIJKLMNOPQRSTUVWXYZ"
LowerLetters == "abcdefghijklmnopqrstuvwxyz"

CharAt(s, i) == SubSeq(s, i, i)

\* str.lower on one character
LowerMap ==
    [c \in { CharAt(UpperLetters, i) : i \in 1..26 } |->
        CharAt(LowerLetters, CHOOSE i \in 1..26 : CharAt(UpperLetters, i) = c)]

LowerChar(c) == IF c \in DOMAIN LowerMap THEN LowerMap[c] ELSE c

RECURSIVE Lower(_)
Lower(s) == IF Len(s) = 0 THEN "" ELSE LowerChar(CharAt(s, 1)) \o Lower(SubSeq(s, 2, Len(s)))

EndsWith(s, suf) ==
    /\ Len(s) >= Len(suf)
    /\ SubSeq(s, Len(s) - Len(suf) + 1, Len(s)) = suf

StartsWith(s, pre) ==
    /\ Len(s) >= Len(pre)
    /\ SubSeq(s, 1, Len(pre)) = pre

\* positions at which pat occurs in s
Occurrences(s, pat) ==
    { i \in 1..(Len(s) - Len(pat) + 1) : SubSeq(s, i, i + Len(pat) - 1) = pat }

Contains(s, pat) == Len(pat) = 0 \/ Occurrences(s, pat) # {}

\* the part of s after the last occurrence of pat (all of s when there is none)
AfterLast(s, pat) ==
    IF Occurrences(s, pat) = {} THEN s
    ELSE LET i == CHOOSE j \in Occurrences(s, pat) : \A h \in Occurrences(s, pat) : h <= j
         IN SubSeq(s, i + Len(pat), Len(s))

----------------------------------------------------------------------------
\* Helpers of the pages

ALLOWED_ARCHIVE_EXTS == {".zip", ".tar", ".gz", ".tgz", ".7z", ".rar"}

ExtOrder == <<".xml", ".pdf", ".zip", ".tar", ".gz", ".7z", ".rar">>

_lower_ext(name) ==
    LET n == Lower(name) IN
    IF EndsWith(n, ".tar.gz") \/ EndsWith(n, ".tgz") THEN ".tgz"
    ELSE IF \E i \in 1..Len(ExtOrder) : EndsWith(n, ExtOrder[i])
         THEN ExtOrder[CHOOSE i \in 1..Len(ExtOrder) :
                          /\ EndsWith(n, ExtOrder[i])
                          /\ \A j \in 1..(i - 1) : ~EndsWith(n, ExtOrder[j])]
         ELSE ""

_is_archive(name) == _lower_ext(name) \in ALLOWED_ARCHIVE_EXTS

\* mutant: the ceiling is not enforced
SafeAddRaises_Never(total, add) == FALSE

\* _safe_add raises when the new total exceeds the ceiling
SafeAddRaises(total, add) == total + add > MAX_TOTAL_BYTES

_safe_add(total, add) == total + add

\* 'a.zip!/b/c.xml' -> 'c.xml'
_basename_inside(name) == AfterLast(AfterLast(name, "!/"), "/")

\* mutant: the separator loses its "!"
Composed_Slash(name, inner_name) == name \o "/" \o inner_name

\* composed = f"{name}!/{inner_name}"
Composed(name, inner_name) == name \o "!/" \o inner_name

----------------------------------------------------------------------------
\* Inputs of the collector: the files an upload or a container may hold.

\* a size that, alone, stays just under the ceiling
Big == MAX_TOTAL_BYTES - 1

\* names an entry of a container may have
FileNames == {"a.xml", "R-b.xml", "c.pdf", "d.txt", "z.zip", "s.7z"}

Files == [name : FileNames, size : {1}] \cup [name : {"a.xml"}, size : {Big}]

\* an upload may also be one of the other container kinds
UploadFiles == Files \cup [name : {"r.rar", "T.TAR.GZ"}, size : {1}]

\* the calls made: (max_depth, exclude_r_xml) with the optional readers present or not
Configs ==
    { [max_depth |-> MAX_DEPTH, exclude_r_xml |-> FALSE, has_py7zr |-> TRUE,  has_rar |-> TRUE],
      [max_depth |-> MAX_DEPTH, exclude_r_xml |-> TRUE,  has_py7zr |-> FALSE, has_rar |-> FALSE],
      [max_depth |-> 1,         exclude_r_xml |-> FALSE, has_py7zr |-> FALSE, has_rar |-> TRUE],
      [max_depth |-> 1,         exclude_r_xml |-> TRUE,  has_py7zr |-> TRUE,  has_rar |-> FALSE],
      [max_depth |-> 0,         exclude_r_xml |-> TRUE,  has_py7zr |-> TRUE,  has_rar |-> TRUE] }

SeqsUpTo(S, n) == UNION { [1..m -> S] : m \in 0..n }

RECURSIVE SumEnqueued(_)
SumEnqueued(l) == IF l = <<>> THEN 0 ELSE Len(Head(l).enqueued) + SumEnqueued(Tail(l))

\* entries placed on the worklist so far
ItemsSeen == k + SumEnqueued(log)

----------------------------------------------------------------------------
\* colectar_xml_pdf_desde_adjuntos

\* the matcher's state while the collector runs
MIdle ==
    /\ in_xml = <<>> /\ in_pdf = <<>> /\ mpc = "idle" /\ xi = 0
    /\ usados_pdf_idx = {} /\ resultado_ordenado = <<>> /\ errores = <<>>
    /\ matches_lines = <<>> /\ reporte_rows = <<>> /\ reporte_errores_txt = <<>>
    /\ pareja = <<>>

CInit ==
    /\ MIdle /\ EIdle /\ IIdle /\ SIdle /\ VIdle /\ WIdle
    /\ uploads \in (SeqsUpTo(UploadFiles, MaxUploads) \ {<<>>})
    /\ \E c \in Configs :
         /\ max_depth = c.max_depth
         /\ exclude_r_xml = c.exclude_r_xml
         /\ has_py7zr = c.has_py7zr
         /\ has_rar = c.has_rar
    /\ cpc = "load"
    /\ k = 0
    /\ total_bytes = 0
    /\ q = <<>>
    /\ xml_files = <<>>
    /\ pdf_files = <<>>
    /\ warnings = <<>>
    /\ st_errors = <<>>
    /\ log = <<>>

\* for up in uploads: total_bytes = _safe_add(...); q.append((name, data, 0))
LoadUpload ==
    /\ cpc = "load"
    /\ k < Len(uploads)
    /\ LET up == uploads[k + 1] IN
       IF SafeAddRaises(total_bytes, up.size)
       THEN /\ cpc' = "aborted"
            /\ UNCHANGED <<k, total_bytes, q>>
       ELSE /\ total_bytes' = _safe_add(total_bytes, up.size)
            /\ q' = Append(q, [name |-> up.name, size |-> up.size, depth |-> 0])
            /\ k' = k + 1
            /\ cpc' = IF k + 1 = Len(uploads) THEN "loop" ELSE "load"
    /\ UNCHANGED <<uploads, max_depth, exclude_r_xml, has_py7zr, has_rar,
                   xml_files, pdf_files, warnings, st_errors, log>>
    /\ UNCHANGED notCollector

\* whether the keep-or-drop test of the xml branch drops the entry
XmlExcluded(name) ==
    exclude_r_xml /\ StartsWith(Lower(_basename_inside(name)), "r-")

\* ext == ".xml"
EmitXml ==
    /\ cpc = "loop" /\ q # <<>>
    /\ _lower_ext(Head(q).name) = ".xml"
    /\ xml_files' = IF XmlExcluded(Head(q).name) THEN xml_files
                    ELSE Append(xml_files, [filename |-> Head(q).name, size |-> Head(q).size])
    /\ q' = Tail(q)
    /\ UNCHANGED <<uploads, max_depth, exclude_r_xml, has_py7zr, has_rar, cpc, k,
                   total_bytes, pdf_files, warnings, st_errors, log>>
    /\ UNCHANGED notCollector

\* ext == ".pdf"
EmitPdf ==
    /\ cpc = "loop" /\ q # <<>>
    /\ _lower_ext(Head(q).name) = ".pdf"
    /\ pdf_files' = Append(pdf_files, [filename |-> Head(q).name, size |-> Head(q).size])
    /\ q' = Tail(q)
    /\ UNCHANGED <<uploads, max_depth, exclude_r_xml, has_py7zr, has_rar, cpc, k,
                   total_bytes, xml_files, warnings, st_errors, log>>
    /\ UNCHANGED notCollector

\* mutant: the depth test is strict
DepthPruned_Strict(depth, maxd) == depth > maxd

\* the guard of the depth branch
DepthPruned(depth, maxd) == depth >= maxd

\* mutant: a container that is too deep raises instead of being skipped
PruneDepth_Raises ==
    /\ cpc = "loop" /\ q # <<>>
    /\ _is_archive(Head(q).name)
    /\ DepthPruned(Head(q).depth, max_depth)
    /\ cpc' = "aborted"
    /\ log' = Append(log, [container |-> Head(q).name, size |-> Head(q).size,
                           depth |-> Head(q).depth, yielded |-> <<>>,
                           enqueued |-> <<>>, outcome |-> "pruned",
                           total_before |-> total_bytes, rejected |-> 0])
    /\ UNCHANGED <<uploads, max_depth, exclude_r_xml, has_py7zr, has_rar, k, q,
                   total_bytes, xml_files, pdf_files, warnings, st_errors>>
    /\ UNCHANGED notCollector

\* _is_archive(name) and depth >= max_depth: st.warning, continue
PruneDepth ==
    /\ cpc = "loop" /\ q # <<>>
    /\ _is_archive(Head(q).name)
    /\ DepthPruned(Head(q).depth, max_depth)
    /\ warnings' = Append(warnings, Head(q).name)
    /\ q' = Tail(q)
    /\ log' = Append(log, [container |-> Head(q).name, size |-> Head(q).size,
                           depth |-> Head(q).depth, yielded |-> <<>>,
                           enqueued |-> <<>>, outcome |-> "pruned",
                           total_before |-> total_bytes, rejected |-> 0])
    /\ UNCHANGED <<uploads, max_depth, exclude_r_xml, has_py7zr, has_rar, cpc, k,
                   total_bytes, xml_files, pdf_files, st_errors>>
    /\ UNCHANGED notCollector

\* mutant: a nested container keeps the depth of the container it came from
InnerDepth_Same(inner_name, depth) == depth

\* depth given to an entry read from a container at `depth`
InnerDepth(inner_name, depth) == IF _is_archive(inner_name) THEN depth + 1 ELSE depth

\* The for loop over the entries the reader yields: each entry is added to the
\* total and appended to the queue, until _safe_add raises.
RECURSIVE ExpandLoop(_, _, _, _, _)
ExpandLoop(name, depth, entries, total, enq) ==
    IF entries = <<>>
    THEN [total |-> total, enqueued |-> enq, raised |-> FALSE, rejected |-> 0]
    ELSE LET e == Head(entries) IN
         IF SafeAddRaises(total, e.size)
         THEN [total |-> total, enqueued |-> enq, raised |-> TRUE, rejected |-> e.size]
         ELSE ExpandLoop(name, depth, Tail(entries), _safe_add(total, e.size),
                  Append(enq, [name |-> Composed(name, e.name), size |-> e.size,
                               depth |-> InnerDepth(e.name, depth)]))

\* whether the reader of `name` raises before yielding anything
\* (_iter_7z / _iter_rar without the optional library)
ReaderUnavailable(name) ==
    \/ _lower_ext(name) = ".7z" /\ ~has_py7zr
    \/ _lower_ext(name) = ".rar" /\ ~has_rar

\* mutant: only the byte ceiling's exception is swallowed
ExceptCatches_BudgetOnly(outcome) == outcome = "budget"

\* what the except clause of the loop does with an exception raised inside
\* the try block: TRUE when it is swallowed (st.error, continue)
ExceptCatches(outcome) == outcome \in {"decode_error", "budget"}

\* _is_archive(name) and depth < max_depth: try: for ... in _dispatch_iter(...)
\* `entries` are the entries the reader yields; `ok` is FALSE when the reader
\* raises after yielding them (corrupt data, missing library).
ExpandContainer ==
    /\ cpc = "loop" /\ q # <<>>
    /\ _is_archive(Head(q).name)
    /\ ~DepthPruned(Head(q).depth, max_depth)
    /\ \E entries \in SeqsUpTo(Files, MaxEntries), ok \in BOOLEAN :
         /\ Len(entries) <= MaxItems - ItemsSeen
         /\ ReaderUnavailable(Head(q).name) => (entries = <<>> /\ ~ok)
         /\ LET r == ExpandLoop(Head(q).name, Head(q).depth, entries, total_bytes, <<>>)
                outcome == IF r.raised THEN "budget"
                           ELSE IF ok THEN "ok" ELSE "decode_error"
            IN \* entries after the one _safe_add refuses are never read
               /\ r.raised => (Len(entries) = Len(r.enqueued) + 1 /\ ok)
               /\ total_bytes' = r.total
               /\ log' = Append(log, [container |-> Head(q).name, size |-> Head(q).size,
                                      depth |-> Head(q).depth,
                                      yielded |-> SubSeq(entries, 1, Len(r.enqueued)),
                                      enqueued |-> r.enqueued, outcome |-> outcome,
                                      total_before |-> total_bytes,
                                      rejected |-> r.rejected])
               /\ IF outcome = "ok"
                  THEN /\ q' = Tail(q) \o r.enqueued
                       /\ UNCHANGED <<st_errors, cpc>>
                  ELSE IF ExceptCatches(outcome)
                  THEN /\ q' = Tail(q) \o r.enqueued
                       /\ st_errors' = Append(st_errors, Head(q).name)
                       /\ UNCHANGED cpc
                  ELSE /\ cpc' = "aborted"
                       /\ UNCHANGED <<q, st_errors>>
    /\ UNCHANGED <<uploads, max_depth, exclude_r_xml, has_py7zr, has_rar, k,
                   xml_files, pdf_files, warnings>>
    /\ UNCHANGED notCollector

\* any other extension: ignored silently
IgnoreOther ==
    /\ cpc = "loop" /\ q # <<>>
    /\ _lower_ext(Head(q).name) \notin {".xml", ".pdf"}
    /\ ~_is_archive(Head(q).name)
    /\ q' = Tail(q)
    /\ UNCHANGED <<uploads, max_depth, exclude_r_xml, has_py7zr, has_rar, cpc, k,
                   total_bytes, xml_files, pdf_files, warnings, st_errors, log>>
    /\ UNCHANGED notCollector

\* while q: ends; return xml_files, pdf_files
ReturnLists ==
    /\ cpc = "loop" /\ q = <<>>
    /\ cpc' = "done"
    /\ UNCHANGED <<uploads, max_depth, exclude_r_xml, has_py7zr, has_rar, k,
                   total_bytes, q, xml_files, pdf_files, warnings, st_errors, log>>
    /\ UNCHANGED notCollector

CNext ==
    \/ LoadUpload
    \/ EmitXml
    \/ EmitPdf
    \/ PruneDepth
    \/ ExpandContainer
    \/ IgnoreOther
    \/ ReturnLists

SpecCollect == CInit /\ [][CNext]_vars

\* the call runs to its end: the loops of a sequential program keep stepping
\* one iteration of "while q": the branch the extension of the head selects
LoopStep == EmitXml \/ EmitPdf \/ PruneDepth \/ ExpandContainer \/ IgnoreOther

\* ENABLED <<LoopStep>>_vars: the branches cover every head of the queue, and
\* each of them takes the head off the queue
LoopEnabled == cpc = "loop" /\ q # <<>>

\* WF_vars(LoopStep), with ENABLED written out
LoopFair == []<>(~LoopEnabled) \/ []<><<LoopStep>>_vars

SpecCollectFair ==
    /\ SpecCollect
    /\ WF_vars(LoadUpload)
    /\ LoopFair
    /\ WF_vars(ReturnLists)

----------------------------------------------------------------------------
\* Derived views of the collector's history

Item(up) == [name |-> up.name, size |-> up.size, depth |-> 0]

LoadedItems == [i \in 1..k |-> Item(uploads[i])]

RECURSIVE FlatEnqueued(_)
FlatEnqueued(l) == IF l = <<>> THEN <<>> ELSE Head(l).enqueued \o FlatEnqueued(Tail(l))

\* every entry ever placed on the worklist, in the order it was appended
AllEnqueued == LoadedItems \o FlatEnqueued(log)

\* the entries already taken from the worklist
Processed == SubSeq(AllEnqueued, 1, Len(AllEnqueued) - Len(q))

QueueIsRest ==
    /\ Len(q) <= Len(AllEnqueued)
    /\ q = SubSeq(AllEnqueued, Len(AllEnqueued) - Len(q) + 1, Len(AllEnqueued))

AsFiles(items) == [i \in 1..Len(items) |-> [filename |-> items[i].name, size |-> items[i].size]]

HasExt(name, ext) == EndsWith(Lower(name), ext)

IsRPrefixed(name) == StartsWith(Lower(_basename_inside(name)), "r-")

KeptXml(items) ==
    SelectSeq(items, LAMBDA it : HasExt(it.name, ".xml") /\ ~(exclude_r_xml /\ IsRPrefixed(it.name)))

Pdfs(items) == SelectSeq(items, LAMBDA it : HasExt(it.name, ".pdf"))

InLog(outcome) == { i \in 1..Len(log) : log[i].outcome = outcome }

RECURSIVE SumSizes(_)
SumSizes(items) == IF items = <<>> THEN 0 ELSE Head(items).size + SumSizes(Tail(items))

----------------------------------------------------------------------------
\* C1: whenever adding an entry's size makes the running total exceed
\* MAX_TOTAL_BYTES the whole call aborts: it never returns normally after
\* _safe_add has refused an entry.
C1_ExceedingAborts ==
    cpc = "done" => InLog("budget") = {}

\* C2 (as claimed): a container at worklist depth max_depth is expanded, and
\* only a container at depth max_depth + 1 is skipped.
C2_ExpandsAtMaxDepth ==
    \A i \in 1..Len(log) :
        /\ log[i].depth = max_depth => log[i].outcome # "pruned"
        /\ log[i].outcome = "pruned" => log[i].depth = max_depth + 1

\* C2 (amended): a container is skipped exactly when its worklist depth equals
\* max_depth; containers at depth < max_depth are expanded and no entry of the
\* worklist ever has depth > max_depth.
C2_PrunedAtMaxDepth ==
    /\ \A i \in 1..Len(log) :
          /\ log[i].depth <= max_depth
          /\ log[i].outcome = "pruned" <=> log[i].depth = max_depth
    /\ \A i \in 1..Len(q) : q[i].depth <= max_depth

C2_Witness ==
    /\ max_depth >= 1
    /\ \E i, j \in 1..Len(log) :
          /\ log[i].outcome = "ok" /\ log[i].depth = max_depth - 1
          /\ log[i].enqueued # <<>>
          /\ log[j].outcome = "pruned" /\ log[j].depth = max_depth

\* C3: a container pruned for its depth never aborts the batch: nothing of it
\* is read or emitted, a warning names it, the rest of the worklist stays
\* queued and is processed, and the call returns the leaves of every other
\* branch.
C3_PruneKeepsBatch ==
    \A i \in InLog("pruned") :
        /\ cpc # "aborted"
        /\ log[i].enqueued = <<>>
        /\ \E j \in 1..Len(warnings) : warnings[j] = log[i].container
        /\ \A j \in 1..Len(AllEnqueued) :
              ~StartsWith(AllEnqueued[j].name, log[i].container \o "!/")
        /\ QueueIsRest
        /\ xml_files = AsFiles(KeptXml(Processed))
        /\ pdf_files = AsFiles(Pdfs(Processed))
        /\ cpc = "done" => Processed = AllEnqueued

\* a nested container was pruned and an xml queued behind it was still emitted
C3_Witness ==
    /\ cpc = "done"
    /\ xml_files # <<>>
    /\ \E i \in InLog("pruned"), a, b \in 1..Len(AllEnqueued) :
          /\ log[i].depth >= 1
          /\ a < b
          /\ AllEnqueued[a].name = log[i].container
          /\ HasExt(AllEnqueued[b].name, ".xml")
          /\ ~(exclude_r_xml /\ IsRPrefixed(AllEnqueued[b].name))

\* names of the entries of `yielded` with extension ext, composed with archive A
InnerNamed(A, yielded, ext) ==
    LET sel == SelectSeq(yielded, LAMBDA e : HasExt(e.name, ext))
    IN [i \in 1..Len(sel) |-> A \o "!/" \o sel[i].name]

FileNamesOf(files) == [i \in 1..Len(files) |-> files[i].filename]

\* one uploaded zip, read without error, holding no nested container
FlatZipRun ==
    /\ cpc = "done"
    /\ Len(uploads) = 1
    /\ HasExt(uploads[1].name, ".zip")
    /\ Len(log) = 1
    /\ log[1].outcome = "ok"
    /\ \A i \in 1..Len(log[1].yielded) : ~_is_archive(log[1].yielded[i].name)

\* C4 (as claimed): a flat zip A with k xml and m pdf entries yields exactly
\* k xml and m pdf entries, each named A!/<inner name>.
C4_FlatZipAll ==
    (FlatZipRun /\ max_depth = MAX_DEPTH) =>
        /\ FileNamesOf(xml_files) = InnerNamed(uploads[1].name, log[1].yielded, ".xml")
        /\ FileNamesOf(pdf_files) = InnerNamed(uploads[1].name, log[1].yielded, ".pdf")

\* C4 (amended): with max_depth >= 1, a flat zip A yields its m pdf entries
\* and those of its k xml entries that the R- filter keeps (all k when
\* exclude_r_xml is off), each named A!/<inner name>.
C4_FlatZipKept ==
    (FlatZipRun /\ max_depth >= 1) =>
        LET A == uploads[1].name
            kept == SelectSeq(log[1].yielded,
                       LAMBDA e : ~(exclude_r_xml /\ StartsWith(Lower(e.name), "r-")))
        IN /\ FileNamesOf(xml_files) = InnerNamed(A, kept, ".xml")
           /\ FileNamesOf(pdf_files) = InnerNamed(A, log[1].yielded, ".pdf")
           /\ ~exclude_r_xml =>
                 Len(xml_files) = Len(SelectSeq(log[1].yielded, LAMBDA e : HasExt(e.name, ".xml")))

C4_Witness ==
    /\ FlatZipRun /\ max_depth >= 1
    /\ Len(xml_files) = 1 /\ xml_files[1].filename = "z.zip!/a.xml"
    /\ Len(pdf_files) = 1 /\ pdf_files[1].filename = "z.zip!/c.pdf"

\* bytes of the containers that failed to decode before log entry i
RECURSIVE FailedBytesBefore(_)
FailedBytesBefore(i) ==
    IF i <= 1 THEN 0
    ELSE (IF log[i - 1].outcome = "decode_error" THEN log[i - 1].size ELSE 0)
         + FailedBytesBefore(i - 1)

\* C5 (as claimed): a container that fails to decode does not make the call
\* raise, and every other container is expanded exactly as if the failing one
\* had not been uploaded: in particular no other container is cut short by
\* the byte ceiling unless the bytes other than the failing containers'
\* already exceed it (containers nested in a failing one are left aside).
C5_AsIfNotUploaded ==
    /\ InLog("decode_error") # {} => cpc # "aborted"
    /\ \A i \in InLog("budget") :
          (\A j \in InLog("decode_error") :
              ~StartsWith(log[i].container, log[j].container \o "!/"))
          => log[i].total_before + SumSizes(log[i].enqueued) + log[i].rejected
                 - FailedBytesBefore(i) > MAX_TOTAL_BYTES

\* C5 (amended): a container that fails to decode is reported (st.error) and
\* removed from the worklist, the call does not raise, the entries it yielded
\* before failing and every other entry stay queued and are classified, and
\* the result holds every kept leaf ever enqueued; the bytes of the failing
\* container and of what it yielded stay counted in the running total.
C5_DecodeFailureIsLocal ==
    \A i \in InLog("decode_error") :
        /\ cpc # "aborted"
        /\ \E j \in 1..Len(st_errors) : st_errors[j] = log[i].container
        /\ Len(st_errors) = Cardinality(InLog("decode_error") \cup InLog("budget"))
        /\ QueueIsRest
        /\ xml_files = AsFiles(KeptXml(Processed))
        /\ pdf_files = AsFiles(Pdfs(Processed))
        /\ cpc = "done" => Processed = AllEnqueued
        /\ total_bytes = SumSizes(AllEnqueued)

C5_Witness ==
    /\ cpc = "done"
    /\ \E i \in InLog("decode_error"), j \in InLog("ok") :
          /\ i < j
          /\ log[i].enqueued # <<>>
          /\ log[j].enqueued # <<>>
    /\ xml_files # <<>>

----------------------------------------------------------------------------
\* emparejar_y_reportar (utils/core.py)

\* Python's None, and the truth value of an optional string
None == "<None>"
Truthy(v) == v # None /\ v # ""

\* str.split('-', 1) of a string that holds a '-'
SplitFirst(s, sep) ==
    LET i == CHOOSE j \in Occurrences(s, sep) : \A h \in Occurrences(s, sep) : j <= h
    IN <<SubSeq(s, 1, i - 1), SubSeq(s, i + Len(sep), Len(s))>>

\* The tuple extraer_datos_xml_bytes returns, from the id and the RUCs its
\* searches resolved in the document (content.parses is FALSE when
\* ET.fromstring raises): serie, numero = id_factura.split('-', 1).
\* The geography fields are left out.
extraer_datos_xml_bytes(content) ==
    IF ~content.parses
    THEN [id_xml |-> None, ruc_emisor |-> None, ruc_pagador |-> None,
          serie |-> None, numero |-> None]
    ELSE LET has == Truthy(content.id) /\ Contains(content.id, "-")
             parts == IF has THEN SplitFirst(content.id, "-") ELSE <<None, None>>
         IN [id_xml |-> content.id, ruc_emisor |-> content.ruc_emisor,
             ruc_pagador |-> content.ruc_pagador,
             serie |-> parts[1], numero |-> parts[2]]

\* the test made on one page's text
PageHasData(text, ruc_emisor, serie, numero) ==
    /\ Truthy(serie) /\ Truthy(numero)
    /\ Contains(text, serie) /\ Contains(text, numero)
    /\ Truthy(ruc_emisor) /\ Contains(text, ruc_emisor)

RECURSIVE ScanPages(_, _, _, _)
ScanPages(pages, ruc_emisor, serie, numero) ==
    IF pages = <<>> THEN FALSE
    ELSE IF PageHasData(Head(pages), ruc_emisor, serie, numero) THEN TRUE
    ELSE ScanPages(Tail(pages), ruc_emisor, serie, numero)

RECURSIVE JoinPages(_)
JoinPages(pages) == IF pages = <<>> THEN "" ELSE Head(pages) \o "\n" \o JoinPages(Tail(pages))

\* mutant: the three strings are looked for in the whole document
pdf_contiene_datos_AnyPage(pdf, ruc_emisor, serie, numero) ==
    pdf.readable /\ PageHasData(JoinPages(pdf.pages), ruc_emisor, serie, numero)

\* fitz.open raising (pdf.readable = FALSE) is caught: return False
pdf_contiene_datos(pdf, ruc_emisor, serie, numero) ==
    IF ~pdf.readable THEN FALSE
    ELSE ScanPages(pdf.pages, ruc_emisor, serie, numero)

\* mutant: the scan does not skip the PDFs already used
RECURSIVE FirstPdf_IgnoreUsed(_, _, _)
FirstPdf_IgnoreUsed(j, d, usados) ==
    IF j > Len(in_pdf) THEN 0
    ELSE IF pdf_contiene_datos(in_pdf[j].content, d.ruc_emisor, d.serie, d.numero) THEN j
    ELSE FirstPdf_IgnoreUsed(j + 1, d, usados)

\* mutant: the scan keeps the last PDF that matches
RECURSIVE FirstPdf_Last(_, _, _)
FirstPdf_Last(j, d, usados) ==
    IF j > Len(in_pdf) THEN 0
    ELSE LET rest == FirstPdf_Last(j + 1, d, usados) IN
         IF rest # 0 THEN rest
         ELSE IF j \notin usados
                 /\ pdf_contiene_datos(in_pdf[j].content, d.ruc_emisor, d.serie, d.numero)
              THEN j ELSE 0

\* for j, p in enumerate(pdf_files): the index (from j on) of the PDF the scan
\* stops at, 0 when it reaches the end
RECURSIVE FirstPdf(_, _, _)
FirstPdf(j, d, usados) ==
    IF j > Len(in_pdf) THEN 0
    ELSE IF j \in usados THEN FirstPdf(j + 1, d, usados)
    ELSE IF pdf_contiene_datos(in_pdf[j].content, d.ruc_emisor, d.serie, d.numero) THEN j
    ELSE FirstPdf(j + 1, d, usados)

\* mutant: the payer RUC is used even when absent
NombreBase_NoDefault(d) == d.ruc_pagador \o "-" \o d.id_xml

\* nombre_base = f"{(ruc_pagador or 'SINRUC')}-{id_xml}"
NombreBase(d) == (IF Truthy(d.ruc_pagador) THEN d.ruc_pagador ELSE "SINRUC") \o "-" \o d.id_xml

\* mutant: an extraction failure is given a PDF like any other record
ExtractionFails_Never(d) == FALSE

\* if not id_xml or not ruc_emisor
ExtractionFails(d) == ~Truthy(d.id_xml) \/ ~Truthy(d.ruc_emisor)

ReportRow(x, d) ==
    [XML_Original |-> x.filename, RUC_Emisor |-> d.ruc_emisor, RUC_Pagador |-> d.ruc_pagador]

\* Inputs of the matcher
XmlContents ==
    { [parses |-> TRUE, id |-> "F001-00000123", ruc_emisor |-> "20123456789", ruc_pagador |-> "20100100100"],
      [parses |-> TRUE, id |-> "F001-00000123", ruc_emisor |-> "20123456789", ruc_pagador |-> None],
      [parses |-> TRUE, id |-> "F001-123", ruc_emisor |-> "20123456789", ruc_pagador |-> "20100100100"],
      [parses |-> TRUE, id |-> None, ruc_emisor |-> "20123456789", ruc_pagador |-> None],
      [parses |-> TRUE, id |-> "B002-7", ruc_emisor |-> None, ruc_pagador |-> "20100100100"],
      [parses |-> FALSE, id |-> None, ruc_emisor |-> None, ruc_pagador |-> None] }

PdfContents ==
    { [readable |-> TRUE,  pages |-> <<"FACTURA F001-00000123 RUC 20123456789">>],
      [readable |-> TRUE,  pages |-> <<"F001 00000123", "RUC 20123456789">>],
      [readable |-> FALSE, pages |-> <<"FACTURA F001-00000123 RUC 20123456789">>],
      [readable |-> TRUE,  pages |-> <<"sin datos", "F001-123 / 20123456789">>] }

XmlNameAt == <<"a.xml", "z.zip!/b.xml", "c.xml", "d.xml">>
PdfNameAt == <<"p.pdf", "z.zip!/q.pdf", "r.pdf", "s.pdf">>

\* the collector's state while the matcher runs
CIdle ==
    /\ uploads = <<>> /\ max_depth = MAX_DEPTH /\ exclude_r_xml = FALSE
    /\ has_py7zr = FALSE /\ has_rar = FALSE /\ cpc = "idle" /\ k = 0
    /\ total_bytes = 0 /\ q = <<>> /\ xml_files = <<>> /\ pdf_files = <<>>
    /\ warnings = <<>> /\ st_errors = <<>> /\ log = <<>>

MInit ==
    /\ CIdle /\ EIdle /\ IIdle /\ SIdle /\ VIdle /\ WIdle
    /\ \E cx \in SeqsUpTo(XmlContents, MaxXml) :
         in_xml = [i \in 1..Len(cx) |-> [filename |-> XmlNameAt[i], content |-> cx[i]]]
    /\ \E cp \in SeqsUpTo(PdfContents, MaxPdf) :
         in_pdf = [j \in 1..Len(cp) |-> [filename |-> PdfNameAt[j], content |-> cp[j]]]
    /\ mpc = "run"
    /\ xi = 0
    /\ usados_pdf_idx = {}
    /\ resultado_ordenado = <<>>
    /\ errores = <<>>
    /\ matches_lines = <<"### RONDA 1: Emparejamientos por contenido">>
    /\ reporte_rows = <<>>
    /\ reporte_errores_txt = <<>>
    /\ pareja = <<>>

\* mutant: an extraction failure is skipped without a line in errores
RecordExtractionFailure_Silent ==
    /\ mpc = "run" /\ xi < Len(in_xml)
    /\ ExtractionFails(extraer_datos_xml_bytes(in_xml[xi + 1].content))
    /\ xi' = xi + 1
    /\ pareja' = Append(pareja, 0)
    /\ UNCHANGED <<in_xml, in_pdf, mpc, usados_pdf_idx, resultado_ordenado, errores,
                   matches_lines, reporte_rows, reporte_errores_txt>>
    /\ UNCHANGED notMatcher

\* if not id_xml or not ruc_emisor: errores.append(...); continue
RecordExtractionFailure ==
    /\ mpc = "run" /\ xi < Len(in_xml)
    /\ LET x == in_xml[xi + 1]
           d == extraer_datos_xml_bytes(x.content)
       IN /\ ExtractionFails(d)
          /\ errores' = Append(errores, [filename |-> x.filename,
                                         msg |-> "No se pudo extraer ID o RUC"])
    /\ xi' = xi + 1
    /\ pareja' = Append(pareja, 0)
    /\ UNCHANGED <<in_xml, in_pdf, mpc, usados_pdf_idx, resultado_ordenado,
                   matches_lines, reporte_rows, reporte_errores_txt>>
    /\ UNCHANGED notMatcher

\* the scan finds a PDF: both files are renamed and collected
MatchRecord ==
    /\ mpc = "run" /\ xi < Len(in_xml)
    /\ LET x == in_xml[xi + 1]
           d == extraer_datos_xml_bytes(x.content)
           j == FirstPdf(1, d, usados_pdf_idx)
       IN /\ ~ExtractionFails(d)
          /\ j # 0
          /\ matches_lines' = Append(matches_lines, d.id_xml \o " -> " \o in_pdf[j].filename)
          /\ usados_pdf_idx' = usados_pdf_idx \cup {j}
          /\ resultado_ordenado' = resultado_ordenado \o
                <<[path |-> "ORDENADO/" \o NombreBase(d) \o ".xml", content |-> x.content],
                  [path |-> "ORDENADO/" \o NombreBase(d) \o ".pdf", content |-> in_pdf[j].content]>>
          /\ reporte_rows' = Append(reporte_rows, ReportRow(x, d))
          /\ pareja' = Append(pareja, j)
    /\ xi' = xi + 1
    /\ UNCHANGED <<in_xml, in_pdf, mpc, errores, reporte_errores_txt>>
    /\ UNCHANGED notMatcher

\* mutant: a record left without PDF gets no report row
RecordUnmatched_NoRow ==
    /\ mpc = "run" /\ xi < Len(in_xml)
    /\ LET x == in_xml[xi + 1]
           d == extraer_datos_xml_bytes(x.content)
       IN /\ ~ExtractionFails(d)
          /\ FirstPdf(1, d, usados_pdf_idx) = 0
          /\ errores' = Append(errores, [filename |-> x.filename, msg |-> "Sin PDF emparejado"])
    /\ xi' = xi + 1
    /\ pareja' = Append(pareja, 0)
    /\ UNCHANGED <<in_xml, in_pdf, mpc, usados_pdf_idx, resultado_ordenado,
                   matches_lines, reporte_rows, reporte_errores_txt>>
    /\ UNCHANGED notMatcher

\* the scan reaches the end: errores.append("... Sin PDF emparejado")
RecordUnmatched ==
    /\ mpc = "run" /\ xi < Len(in_xml)
    /\ LET x == in_xml[xi + 1]
           d == extraer_datos_xml_bytes(x.content)
       IN /\ ~ExtractionFails(d)
          /\ FirstPdf(1, d, usados_pdf_idx) = 0
          /\ errores' = Append(errores, [filename |-> x.filename, msg |-> "Sin PDF emparejado"])
          /\ reporte_rows' = Append(reporte_rows, ReportRow(x, d))
    /\ xi' = xi + 1
    /\ pareja' = Append(pareja, 0)
    /\ UNCHANGED <<in_xml, in_pdf, mpc, usados_pdf_idx, resultado_ordenado,
                   matches_lines, reporte_errores_txt>>
    /\ UNCHANGED notMatcher

\* after the loop: the report texts are joined and the function returns
FinishReport ==
    /\ mpc = "run" /\ xi = Len(in_xml)
    /\ reporte_errores_txt' =
          IF errores # <<>> THEN errores
          ELSE <<[filename |-> "", msg |-> "Todos emparejados."]>>
    /\ mpc' = "done"
    /\ UNCHANGED <<in_xml, in_pdf, xi, usados_pdf_idx, resultado_ordenado, errores,
                   matches_lines, reporte_rows, pareja>>
    /\ UNCHANGED notMatcher

MNext ==
    \/ RecordExtractionFailure
    \/ MatchRecord
    \/ RecordUnmatched
    \/ FinishReport

SpecMatch == MInit /\ [][MNext]_vars

----------------------------------------------------------------------------
\* Claims about the matcher, stated on the inputs and the history `pareja`

\* the XML records handled so far that were given a PDF, in input order
PairedIdx == SelectSeq([a \in 1..Len(pareja) |-> a], LAMBDA a : pareja[a] # 0)

\* record a lacks its id or its issuer RUC
Absent(a) ==
    LET c == in_xml[a].content
    IN ~c.parses \/ c.id = None \/ c.ruc_emisor = None

SerieOf(c) == SplitFirst(c.id, "-")[1]
NumeroOf(c) == SplitFirst(c.id, "-")[2]

\* some single page of PDF j holds the series, the number and the issuer RUC
\* of record a
SomePageHasAll(j, a) ==
    LET c == in_xml[a].content
        pdf == in_pdf[j].content
    IN /\ pdf.readable
       /\ \E n \in 1..Len(pdf.pages) :
             /\ Contains(pdf.pages[n], SerieOf(c))
             /\ Contains(pdf.pages[n], NumeroOf(c))
             /\ Contains(pdf.pages[n], c.ruc_emisor)

\* each of the three strings is on some page of PDF j
EachOnSomePage(j, a) ==
    LET c == in_xml[a].content
        pdf == in_pdf[j].content
    IN \A t \in {SerieOf(c), NumeroOf(c), c.ruc_emisor} :
          \E n \in 1..Len(pdf.pages) : Contains(pdf.pages[n], t)

\* the PDFs given to the records before a
TakenBefore(a) == { pareja[b] : b \in { h \in 1..(a - 1) : pareja[h] # 0 } }

\* the PDFs record a could be given
Candidates(a) == { j \in 1..Len(in_pdf) : j \notin TakenBefore(a) /\ SomePageHasAll(j, a) }

\* C6: the assignment is one-to-one in every state: no PDF index is paired
\* with two XML records, and each XML record has at most one PDF.
C6_OneToOne ==
    /\ \A a, b \in 1..Len(pareja) : (a # b /\ pareja[a] # 0) => pareja[a] # pareja[b]
    /\ usados_pdf_idx = { pareja[a] : a \in { h \in 1..Len(pareja) : pareja[h] # 0 } }
    /\ Cardinality(usados_pdf_idx) = Len(PairedIdx)
    /\ Len(matches_lines) = 1 + Len(PairedIdx)
    /\ Len(resultado_ordenado) = 2 * Len(PairedIdx)

C6_Witness ==
    /\ mpc = "done"
    /\ Len(pareja) = 2 /\ pareja[1] # 0 /\ pareja[2] # 0
    /\ in_xml[1].content = in_xml[2].content

\* C7: the PDF paired with a record is the lowest-index PDF that satisfies
\* the content predicate for it and was not consumed by an earlier record
\* (none when there is no such PDF).
C7_LowestFreePdf ==
    \A a \in 1..Len(pareja) :
        ~Absent(a) =>
            IF Candidates(a) = {} THEN pareja[a] = 0
            ELSE /\ pareja[a] \in Candidates(a)
                 /\ \A j \in Candidates(a) : pareja[a] <= j

\* two unconsumed PDFs satisfied the same record and the earlier one was taken
C7_Witness ==
    \E a \in 1..Len(pareja) :
        /\ ~Absent(a)
        /\ Cardinality(Candidates(a)) >= 2
        /\ pareja[a] = 1

\* C8: a record whose id or issuer RUC is absent is recorded as an extraction
\* failure, consumes no PDF and adds no output, and the later records are
\* still handled, against every PDF not yet consumed.
C8_ExtractionFailureContinues ==
    \A a \in 1..Len(pareja) :
        Absent(a) =>
            /\ pareja[a] = 0
            /\ \E n \in 1..Len(errores) :
                  errores[n] = [filename |-> in_xml[a].filename,
                                msg |-> "No se pudo extraer ID o RUC"]
            /\ Len(resultado_ordenado) = 2 * Len(PairedIdx)
            /\ Cardinality(usados_pdf_idx) = Len(PairedIdx)
            /\ mpc = "done" => Len(pareja) = Len(in_xml)
            /\ \A b \in (a + 1)..Len(pareja) :
                  (~Absent(b) /\ Candidates(b) # {}) =>
                      (pareja[b] \in Candidates(b) /\ \A j \in Candidates(b) : pareja[b] <= j)

C8_Witness ==
    /\ mpc = "done"
    /\ Len(pareja) = 2
    /\ Absent(1) /\ in_xml[1].content.parses
    /\ pareja[2] = 1

\* C9: a PDF satisfies the content predicate for a record exactly when one
\* single page of it holds the series, the number and the issuer RUC; the
\* three strings on different pages do not match, and an unreadable PDF does
\* not match.
C9_SinglePagePredicate ==
    \A a \in 1..Len(in_xml), j \in 1..Len(in_pdf) :
        ~Absent(a) =>
            LET d == extraer_datos_xml_bytes(in_xml[a].content)
            IN pdf_contiene_datos(in_pdf[j].content, d.ruc_emisor, d.serie, d.numero)
                  <=> SomePageHasAll(j, a)

\* the first PDF holds the three strings on different pages only, the record
\* was given the second one
C9_Witness ==
    /\ Len(pareja) >= 1 /\ ~Absent(1)
    /\ Len(in_pdf) = 2
    /\ in_pdf[1].content.readable
    /\ EachOnSomePage(1, 1) /\ ~SomePageHasAll(1, 1)
    /\ pareja[1] = 2

\* C10: every matched pair contributes exactly two output entries, the XML
\* bytes then the PDF bytes, named ORDENADO/<payer RUC or SINRUC>-<id> with
\* the extensions .xml and .pdf.
C10_TwoEntriesPerPair ==
    /\ Len(resultado_ordenado) = 2 * Len(PairedIdx)
    /\ \A n \in 1..Len(PairedIdx) :
          LET a == PairedIdx[n]
              c == in_xml[a].content
              base == (IF c.ruc_pagador = None THEN "SINRUC" ELSE c.ruc_pagador)
                         \o "-" \o c.id
          IN /\ resultado_ordenado[2 * n - 1] =
                   [path |-> "ORDENADO/" \o base \o ".xml", content |-> c]
             /\ resultado_ordenado[2 * n] =
                   [path |-> "ORDENADO/" \o base \o ".pdf",
                    content |-> in_pdf[pareja[a]].content]

\* id F001-00000123, issuer 20123456789, one page holding the three strings
C10_Witness ==
    /\ mpc = "done"
    /\ Len(in_xml) = 1 /\ Len(in_pdf) = 1
    /\ in_xml[1].content.id = "F001-00000123"
    /\ in_xml[1].content.ruc_emisor = "20123456789"
    /\ Len(in_pdf[1].content.pages) = 1
    /\ Len(resultado_ordenado) = 2
    /\ resultado_ordenado[1].path = "ORDENADO/SINRUC-F001-00000123.xml"
    /\ resultado_ordenado[2].path = "ORDENADO/SINRUC-F001-00000123.pdf"

----------------------------------------------------------------------------
\* the handled records whose id and issuer RUC were extracted, in input order
ExtractedIdx == SelectSeq([a \in 1..Len(pareja) |-> a], LAMBDA a : ~Absent(a))

\* C11 (as claimed): after the run there is one report row per XML record
\* given, whatever the record's outcome.
C11_RowPerRecord ==
    mpc = "done" => Len(reporte_rows) = Len(in_xml)

\* C11 (amended): there is one report row per handled XML record whose id and
\* issuer RUC were extracted (matched or unmatched), in input order, carrying
\* the record's file name and RUCs; an extraction failure adds no row.
C11_RowPerExtractedRecord ==
    /\ Len(reporte_rows) = Len(ExtractedIdx)
    /\ \A n \in 1..Len(ExtractedIdx) :
          LET x == in_xml[ExtractedIdx[n]]
          IN reporte_rows[n] = [XML_Original |-> x.filename,
                                RUC_Emisor |-> x.content.ruc_emisor,
                                RUC_Pagador |-> x.content.ruc_pagador]
    /\ mpc = "done" => Len(ExtractedIdx) = Cardinality({a \in 1..Len(in_xml) : ~Absent(a)})

\* an extraction failure, then a record left without PDF: one row for the two
C11_Witness ==
    /\ mpc = "done"
    /\ Len(in_xml) = 2
    /\ Absent(1) /\ ~Absent(2)
    /\ pareja[2] = 0
    /\ Len(reporte_rows) = 1

----------------------------------------------------------------------------
\* extraer_datos_xml_bytes (utils/core.py) and _extract_xml_meta
\* (pages/2_Validacion_Confirming.py): the searches made in the document.
\*
\* A document that parses is the sequence, in document order, of its elements
\* that hold an ID:
\*   kind "ID"                 a cbc:ID child of the root
\*   kind "DocumentReference"  a cac:DocumentReference (dtc: the text of its
\*                             DocumentTypeCode, text: the text of its ID)
\*   kind "SupplierID"         a cbc:ID inside cac:AccountingSupplierParty
\*   kind "CustomerID"         a cbc:ID inside cac:AccountingCustomerParty
\* text = None is an element without text. The other tag-name variants of the
\* parties, the type code and the geography fields are left out.
\* A document that does not parse is its raw text.

MaxNodes == 3

\* str.strip, for blanks
RECURSIVE Strip(_)
Strip(s) ==
    IF Len(s) = 0 THEN s
    ELSE IF CharAt(s, 1) = " " THEN Strip(SubSeq(s, 2, Len(s)))
    ELSE IF CharAt(s, Len(s)) = " " THEN Strip(SubSeq(s, 1, Len(s) - 1))
    ELSE s

DigitString == "0123456789"
DigitChars == { CharAt(DigitString, i) : i \in 1..Len(DigitString) }
AlnumChars ==
    DigitChars \cup { CharAt(UpperLetters, i) : i \in 1..26 }
               \cup { CharAt(LowerLetters, i) : i \in 1..26 }

AllIn(s, chars) == \A i \in 1..Len(s) : CharAt(s, i) \in chars

\* (node.text or '').strip() if (node is not None and node.text) else None
_gettext(text) == IF Truthy(text) THEN Strip(text) ELSE None

\* s.count('-') == 1 and re.match(r'^[A-Za-z0-9]{1,4}-[0-9A-Za-z]+$', s)
_es_id_factura(s) ==
    /\ Truthy(s)
    /\ LET t == Strip(s) IN
       /\ Cardinality(Occurrences(t, "-")) = 1
       /\ LET p == SplitFirst(t, "-") IN
          /\ Len(p[1]) \in 1..4 /\ AllIn(p[1], AlnumChars)
          /\ Len(p[2]) >= 1 /\ AllIn(p[2], AlnumChars)

\* index of the first element of texts accepted as an id, 0 when there is none
RECURSIVE FirstId(_, _)
FirstId(texts, i) ==
    IF i > Len(texts) THEN 0
    ELSE IF Truthy(_gettext(texts[i])) /\ _es_id_factura(_gettext(texts[i])) THEN i
    ELSE FirstId(texts, i + 1)

TextOf(nodes) == [i \in 1..Len(nodes) |-> nodes[i].text]

\* for dr in root.findall('.//cac:DocumentReference'): dtc == '01' and the id has the shape
FromDocumentReference(nodes) ==
    LET refs == SelectSeq(nodes, LAMBDA n :
                    /\ n.kind = "DocumentReference"
                    /\ Strip(IF Truthy(_gettext(n.dtc)) THEN _gettext(n.dtc) ELSE "") = "01")
        i == FirstId(TextOf(refs), 1)
    IN IF i = 0 THEN None ELSE Strip(_gettext(refs[i].text))

\* cand = _findtext(root, './cbc:ID'): the first cbc:ID child of the root
FromRoot(nodes) ==
    LET ids == SelectSeq(nodes, LAMBDA n : n.kind = "ID")
    IN IF ids # <<>> /\ FirstId(<<ids[1].text>>, 1) = 1
       THEN Strip(_gettext(ids[1].text)) ELSE None

\* for tag in root.findall('.//cbc:ID'): the first one that has the shape
FromAnyId(nodes) ==
    LET i == FirstId(TextOf(nodes), 1)
    IN IF i = 0 THEN None ELSE Strip(_gettext(nodes[i].text))

\* mutant: the root's own id is looked at before the document references
ResolveId_RootFirst(nodes) ==
    IF Truthy(FromRoot(nodes)) THEN FromRoot(nodes)
    ELSE IF Truthy(FromDocumentReference(nodes)) THEN FromDocumentReference(nodes)
    ELSE FromAnyId(nodes)

\* id_factura: the three searches, each made only if not id_factura
ResolveId(nodes) ==
    IF Truthy(FromDocumentReference(nodes)) THEN FromDocumentReference(nodes)
    ELSE IF Truthy(FromRoot(nodes)) THEN FromRoot(nodes)
    ELSE FromAnyId(nodes)

\* mutant: the RUC is taken only when it is made of 11 digits
_find_ruc_any_Checked(nodes, kind) ==
    LET tags == SelectSeq(nodes, LAMBDA n :
                    /\ n.kind = kind /\ n.schemeID = "6" /\ Truthy(n.text)
                    /\ Len(Strip(n.text)) = 11 /\ AllIn(Strip(n.text), DigitChars))
    IN IF tags = <<>> THEN None ELSE Strip(tags[1].text)

\* _find_ruc_any: the first tag with schemeID '6' and a text that is not blank
_find_ruc_any(nodes, kind) ==
    LET tags == SelectSeq(nodes, LAMBDA n :
                    /\ n.kind = kind /\ n.schemeID = "6" /\ Truthy(n.text)
                    /\ Strip(n.text) # "")
    IN IF tags = <<>> THEN None ELSE Strip(tags[1].text)

\* ---- _extract_xml_meta ----

Min(S) == CHOOSE x \in S : \A y \in S : x <= y

\* the character of s at i, "" outside s
At(s, i) == IF i \in 1..Len(s) THEN SubSeq(s, i, i) ELSE ""

\* s[i..j] cut to the string
Sub(s, i, j) ==
    LET b == IF j > Len(s) THEN Len(s) ELSE j
    IN IF i < 1 \/ i > b THEN "" ELSE SubSeq(s, i, b)

\* re.sub(r'\D', '', s)
RECURSIVE OnlyDigits(_)
OnlyDigits(s) ==
    IF Len(s) = 0 THEN ""
    ELSE (IF CharAt(s, 1) \in DigitChars THEN CharAt(s, 1) ELSE "")
            \o OnlyDigits(SubSeq(s, 2, Len(s)))

\* re.sub(r"\s+", "", s), for blanks
RECURSIVE RemoveBlanks(_)
RemoveBlanks(s) ==
    IF Len(s) = 0 THEN ""
    ELSE (IF CharAt(s, 1) = " " THEN "" ELSE CharAt(s, 1))
            \o RemoveBlanks(SubSeq(s, 2, Len(s)))

\* the first position from i on that holds no blank (\s*)
RECURSIVE SkipBlanks(_, _)
SkipBlanks(s, i) == IF At(s, i) = " " THEN SkipBlanks(s, i + 1) ELSE i

\* re.search(r"<cbc:ID[^>]*>(.*?)</cbc:ID>", text, IGNORECASE|DOTALL): group 1
\* of the leftmost match, None when there is no match
SearchCbcId(text) ==
    LET L == Lower(text)
        Gt(i) == { j \in Occurrences(L, ">") : j >= i + 7 }
        Close(i) == { c \in Occurrences(L, "</cbc:id>") : c > Min(Gt(i)) }
        ok == { i \in Occurrences(L, "<cbc:id") : Gt(i) # {} /\ Close(i) # {} }
    IN IF ok = {} THEN None
       ELSE Sub(text, Min(Gt(Min(ok))) + 1, Min(Close(Min(ok))) - 1)

\* the match of schemeID\s*=\s*"6"[^>]*>\s*([0-9]{11})\s*< that starts at i
SchemeMatchAt(L, i) ==
    LET a == SkipBlanks(L, i + 8)
        b == SkipBlanks(L, a + 1)
        gts == { j \in Occurrences(L, ">") : j >= b + 3 }
        c == SkipBlanks(L, Min(gts) + 1)
        d == Sub(L, c, c + 10)
    IN IF /\ At(L, a) = "="
          /\ Sub(L, b, b + 2) = "\"6\""
          /\ gts # {}
          /\ Len(d) = 11 /\ AllIn(d, DigitChars)
          /\ At(L, SkipBlanks(L, c + 11)) = "<"
       THEN d ELSE None

\* re.search(r'schemeID\s*=\s*"6"[^>]*>\s*([0-9]{11})\s*<', text, IGNORECASE)
SearchScheme6(text) ==
    LET L == Lower(text)
        ok == { i \in Occurrences(L, "schemeid") : SchemeMatchAt(L, i) # None }
    IN IF ok = {} THEN None ELSE SchemeMatchAt(L, Min(ok))

\* the first ID whose schemeID is "6" and whose text holds 11 digits
RucNode(nodes) ==
    SelectSeq(nodes, LAMBDA n :
        /\ Strip(IF n.schemeID = None THEN "" ELSE n.schemeID) = "6"
        /\ Len(OnlyDigits(IF n.text = None THEN "" ELSE n.text)) = 11)

\* _extract_xml_meta: id_full and ruc of the dict it returns (serie, corr and
\* tipo are left out). The except clause scans the raw text.
_extract_xml_meta(doc) ==
    IF doc.parses
    THEN [id_full |-> IF doc.nodes # <<>> /\ Truthy(doc.nodes[1].text)
                      THEN Strip(doc.nodes[1].text) ELSE None,
          ruc |-> IF RucNode(doc.nodes) # <<>>
                  THEN OnlyDigits(Strip(RucNode(doc.nodes)[1].text)) ELSE None]
    ELSE [id_full |-> IF SearchCbcId(doc.raw) # None
                      THEN RemoveBlanks(SearchCbcId(doc.raw)) ELSE None,
          ruc |-> SearchScheme6(doc.raw)]

\* mutant: extraer_datos_xml_bytes scans the raw text when parsing fails
Searches_Fallback(doc) ==
    IF ~doc.parses
    THEN [parses |-> TRUE, id |-> SearchCbcId(doc.raw),
          ruc_emisor |-> SearchScheme6(doc.raw), ruc_pagador |-> None]
    ELSE [parses |-> TRUE, id |-> ResolveId(doc.nodes),
          ruc_emisor |-> _find_ruc_any(doc.nodes, "SupplierID"),
          ruc_pagador |-> _find_ruc_any(doc.nodes, "CustomerID")]

\* what the searches of extraer_datos_xml_bytes resolve in a document
Searches(doc) ==
    IF ~doc.parses
    THEN [parses |-> FALSE, id |-> None, ruc_emisor |-> None, ruc_pagador |-> None]
    ELSE [parses |-> TRUE, id |-> ResolveId(doc.nodes),
          ruc_emisor |-> _find_ruc_any(doc.nodes, "SupplierID"),
          ruc_pagador |-> _find_ruc_any(doc.nodes, "CustomerID")]

\* Inputs of the extractors
XmlNode(kind, dtc, schemeID, text) ==
    [kind |-> kind, dtc |-> dtc, schemeID |-> schemeID, text |-> text]

XmlNodes ==
    { XmlNode("ID", None, None, "F001-00005905"),
      XmlNode("ID", None, None, "F00100005905"),
      XmlNode("ID", None, None, "F-0-01"),
      XmlNode("ID", None, None, "F001-00A"),
      XmlNode("DocumentReference", "01", None, " B002-7 "),
      XmlNode("DocumentReference", "01", None, "ABCDE-1"),
      XmlNode("DocumentReference", "03", None, "E001-15"),
      XmlNode("DocumentReference", " 01 ", None, None),
      XmlNode("SupplierID", None, "6", "20123456789"),
      XmlNode("SupplierID", None, "6", " 2012345678 "),
      XmlNode("SupplierID", None, "1", "20999999999"),
      XmlNode("CustomerID", None, "6", "20100100100") }

\* texts on which ET.fromstring raises
RawTexts ==
    { "<I><cbc:ID>F001-00005905</cbc:ID><cbc:ID schemeID=\"6\">20123456789</cbc:ID>",
      "<I><cbc:id schemeid = \"6\" > 20123456789 </cbc:id>",
      "<I><ID>F001-00005905</ID><ID schemeID='6'>20123456789</ID>",
      "<I><cbc:ID>F001-1</cbc:ID><cbc:ID schemeID=\"6\">2012345678</cbc:ID>",
      "F001-00005905" }

Docs ==
    { [parses |-> TRUE, nodes |-> ns, raw |-> ""] : ns \in SeqsUpTo(XmlNodes, MaxNodes) }
        \cup { [parses |-> FALSE, nodes |-> <<>>, raw |-> r] : r \in RawTexts }

EInit ==
    /\ CIdle /\ MIdle /\ IIdle /\ SIdle /\ VIdle /\ WIdle
    /\ xml_bytes \in Docs
    /\ epc = "call"
    /\ extracted = <<>>
    /\ meta = <<>>

\* extraer_datos_xml_bytes(xml_bytes)
CallExtraerDatos ==
    /\ epc = "call"
    /\ extracted' = extraer_datos_xml_bytes(Searches(xml_bytes))
    /\ epc' = "core"
    /\ UNCHANGED <<xml_bytes, meta>>
    /\ UNCHANGED notExtractor

\* _extract_xml_meta(xml_bytes)
CallExtractMeta ==
    /\ epc = "core"
    /\ meta' = _extract_xml_meta(xml_bytes)
    /\ epc' = "done"
    /\ UNCHANGED <<xml_bytes, extracted>>
    /\ UNCHANGED notExtractor

ENext ==
    \/ CallExtraerDatos
    \/ CallExtractMeta

SpecExtract == EInit /\ [][ENext]_vars

----------------------------------------------------------------------------
\* Claims about the extractors

\* the shape of an id: 1-4 alphanumerics, one hyphen, then alphanumerics
ShapeOk(s) ==
    \E i \in 1..Len(s) :
        /\ CharAt(s, i) = "-"
        /\ (i - 1) \in 1..4
        /\ Len(s) > i
        /\ \A j \in 1..Len(s) : j # i => CharAt(s, j) \in AlnumChars

IdText(n) == IF n.text = None THEN "" ELSE Strip(n.text)

\* positions of the invoice document references with a shaped id, of the
\* root's id children, and of every shaped id
InvoiceRefs(ns) ==
    { i \in 1..Len(ns) : /\ ns[i].kind = "DocumentReference"
                         /\ ns[i].dtc # None /\ Strip(ns[i].dtc) = "01"
                         /\ ShapeOk(IdText(ns[i])) }
RootIds(ns) == { i \in 1..Len(ns) : ns[i].kind = "ID" }
ShapedIds(ns) == { i \in 1..Len(ns) : ShapeOk(IdText(ns[i])) }

\* C12: the id is that of the first invoice document reference with a shaped
\* id; otherwise the root's own id if shaped; otherwise the first shaped id in
\* document order; otherwise absent.
C12_IdPrecedence ==
    (epc # "call" /\ xml_bytes.parses) =>
        LET ns == xml_bytes.nodes
        IN extracted.id_xml =
              IF InvoiceRefs(ns) # {} THEN IdText(ns[Min(InvoiceRefs(ns))])
              ELSE IF RootIds(ns) # {} /\ ShapeOk(IdText(ns[Min(RootIds(ns))]))
                   THEN IdText(ns[Min(RootIds(ns))])
              ELSE IF ShapedIds(ns) # {} THEN IdText(ns[Min(ShapedIds(ns))])
              ELSE None

\* the root's own shaped id comes first in the document, and the id of the
\* invoice document reference behind it is the one returned
C12_Witness ==
    /\ epc = "done" /\ xml_bytes.parses
    /\ Len(xml_bytes.nodes) >= 2
    /\ xml_bytes.nodes[1].kind = "ID" /\ ShapeOk(IdText(xml_bytes.nodes[1]))
    /\ InvoiceRefs(xml_bytes.nodes) # {}
    /\ extracted.id_xml = "B002-7"

\* ids and RUCs written in the raw texts
RawIds == {"F001-00005905", "F001-1"}
RawRucs == {"20123456789"}

\* the first cbc:ID element of the raw text holds t
FirstCbcIdIs(raw, t) ==
    LET at == Occurrences(raw, "<cbc:ID>" \o t \o "</cbc:ID>")
    IN at # {} /\ Min(at) = Min(Occurrences(Lower(raw), "<cbc:id"))

\* the first schemeID attribute of the raw text is "6" on an element holding r
FirstScheme6Is(raw, r) ==
    LET at == Occurrences(raw, "schemeID=\"6\">" \o r \o "<")
    IN at # {} /\ Min(at) = Min(Occurrences(Lower(raw), "schemeid"))

\* C13 (as claimed): when parsing fails both extractors scan the raw text, so
\* an id and a scheme-6 RUC written in it are still returned by both.
C13_FallbackInBoth ==
    (epc = "done" /\ ~xml_bytes.parses) =>
        /\ \A t \in RawIds : FirstCbcIdIs(xml_bytes.raw, t) =>
              (extracted.id_xml = t /\ meta.id_full = t)
        /\ \A r \in RawRucs : FirstScheme6Is(xml_bytes.raw, r) =>
              (extracted.ruc_emisor = r /\ meta.ruc = r)

\* C13 (amended): both extractors return a value for every input. When
\* parsing fails extraer_datos_xml_bytes returns every field absent, without
\* looking at the raw text; _extract_xml_meta scans the raw text and returns
\* the content of its first cbc:ID element and the 11-digit text of its first
\* schemeID="6" element, a signal that is not found being absent.
C13_FallbackOnlyInMeta ==
    /\ epc # "call" =>
          DOMAIN extracted = {"id_xml", "ruc_emisor", "ruc_pagador", "serie", "numero"}
    /\ epc = "done" => DOMAIN meta = {"id_full", "ruc"}
    /\ (epc = "done" /\ ~xml_bytes.parses) =>
          /\ \A f \in DOMAIN extracted : extracted[f] = None
          /\ \A t \in RawIds : FirstCbcIdIs(xml_bytes.raw, t) => meta.id_full = t
          /\ \A r \in RawRucs : FirstScheme6Is(xml_bytes.raw, r) => meta.ruc = r
          /\ ~Contains(Lower(xml_bytes.raw), "<cbc:id") => meta.id_full = None
          /\ ~Contains(Lower(xml_bytes.raw), "schemeid") => meta.ruc = None

\* a text that does not parse and holds an id and a RUC: _extract_xml_meta
\* returns both, extraer_datos_xml_bytes neither
C13_Witness ==
    /\ epc = "done" /\ ~xml_bytes.parses
    /\ meta.id_full = "F001-00005905" /\ meta.ruc = "20123456789"
    /\ extracted.id_xml = None /\ extracted.ruc_emisor = None

\* the texts of the supplier's scheme-6 ids that are not blank, trimmed
SupplierRucs(ns) ==
    LET tags == SelectSeq(ns, LAMBDA n :
                    /\ n.kind = "SupplierID" /\ n.schemeID = "6"
                    /\ n.text # None /\ Strip(n.text) # "")
    IN [i \in 1..Len(tags) |-> Strip(tags[i].text)]

\* C14 (as claimed): the issuer RUC is absent or made of exactly 11 digits,
\* and when the id is present the series is 1-4 alphanumerics, the number is
\* a digit string and id = series-number.
C14_RucAndNumberDigits ==
    epc # "call" =>
        /\ \/ extracted.ruc_emisor = None
           \/ Len(extracted.ruc_emisor) = 11 /\ AllIn(extracted.ruc_emisor, DigitChars)
        /\ extracted.id_xml # None =>
              /\ Len(extracted.serie) \in 1..4 /\ AllIn(extracted.serie, AlnumChars)
              /\ Len(extracted.numero) >= 1 /\ AllIn(extracted.numero, DigitChars)
              /\ extracted.id_xml = extracted.serie \o "-" \o extracted.numero

\* C14 (amended): the issuer RUC is absent or the trimmed, non-empty text of
\* the supplier's first scheme-6 id, whatever its characters and length; when
\* the id is present the series is 1-4 alphanumerics, the number is a
\* non-empty alphanumeric string and id = series-number; when the id is
\* absent so are the series and the number.
C14_RucTextAndIdShape ==
    epc # "call" =>
        /\ xml_bytes.parses =>
              extracted.ruc_emisor =
                 IF SupplierRucs(xml_bytes.nodes) = <<>> THEN None
                 ELSE SupplierRucs(xml_bytes.nodes)[1]
        /\ extracted.ruc_emisor # None => Len(extracted.ruc_emisor) >= 1
        /\ extracted.id_xml # None =>
              /\ Len(extracted.serie) \in 1..4 /\ AllIn(extracted.serie, AlnumChars)
              /\ Len(extracted.numero) >= 1 /\ AllIn(extracted.numero, AlnumChars)
              /\ extracted.id_xml = extracted.serie \o "-" \o extracted.numero
        /\ extracted.id_xml = None =>
              (extracted.serie = None /\ extracted.numero = None)

\* a record with a 10-digit issuer RUC and a number that holds a letter
C14_Witness ==
    /\ epc = "done"
    /\ extracted.ruc_emisor = "2012345678"
    /\ extracted.id_xml = "F001-00A" /\ extracted.numero = "00A"

----------------------------------------------------------------------------
\* build_id_facturas_por_ruc (utils/core.py)

\* mutant: a record is indexed as soon as it has an issuer RUC
IndexKeeps_RucOnly(d) == Truthy(d.ruc_emisor)

\* not (id_xml and ruc_emisor and serie and numero): continue
IndexKeeps(d) ==
    Truthy(d.id_xml) /\ Truthy(d.ruc_emisor) /\ Truthy(d.serie) /\ Truthy(d.numero)

\* idx.setdefault(key, set()).add(value)
SetDefaultAdd(dict, key, value) ==
    [r \in (DOMAIN dict) \cup {key} |->
        IF r = key THEN (IF r \in DOMAIN dict THEN dict[r] ELSE {}) \cup {value}
        ELSE dict[r]]

\* Inputs of the indexer: the documents of the matcher and one of another issuer
IndexContents ==
    XmlContents \cup
    { [parses |-> TRUE, id |-> "F001-00000123", ruc_emisor |-> "20999999999",
       ruc_pagador |-> None] }

IInit ==
    /\ CIdle /\ MIdle /\ EIdle /\ SIdle /\ VIdle /\ WIdle
    /\ \E cx \in SeqsUpTo(IndexContents, MaxXml) :
         ix_files = [i \in 1..Len(cx) |-> [filename |-> XmlNameAt[i], content |-> cx[i]]]
    /\ ipc = "run"
    /\ ix_n = 0
    /\ idx = <<>>

\* one turn of: for x in xml_files
IndexRecord ==
    /\ ipc = "run" /\ ix_n < Len(ix_files)
    /\ LET d == extraer_datos_xml_bytes(ix_files[ix_n + 1].content)
       IN idx' = IF IndexKeeps(d)
                 THEN SetDefaultAdd(idx, Strip(d.ruc_emisor), Strip(d.id_xml))
                 ELSE idx
    /\ ix_n' = ix_n + 1
    /\ UNCHANGED <<ix_files, ipc>>
    /\ UNCHANGED notIndexer

\* return idx
ReturnIndex ==
    /\ ipc = "run" /\ ix_n = Len(ix_files)
    /\ ipc' = "done"
    /\ UNCHANGED <<ix_files, ix_n, idx>>
    /\ UNCHANGED notIndexer

INext ==
    \/ IndexRecord
    \/ ReturnIndex

SpecIndex == IInit /\ [][INext]_vars

\* the RUCs and ids written in the input documents
InputRucs == { ix_files[n].content.ruc_emisor : n \in 1..Len(ix_files) }
InputIds == { ix_files[n].content.id : n \in 1..Len(ix_files) }

\* C15: id i is in the set of RUC r exactly when some input record has id i
\* and issuer RUC r (with its series and number); records missing one of them
\* add nothing and no RUC maps to an empty set.
C15_IndexIffRecord ==
    ipc = "done" =>
        /\ \A r \in DOMAIN idx : idx[r] # {}
        /\ \A r \in (DOMAIN idx) \cup InputRucs :
           \A i \in (UNION { idx[h] : h \in DOMAIN idx }) \cup InputIds :
              (r \in DOMAIN idx /\ i \in idx[r]) <=>
                 \E n \in 1..Len(ix_files) :
                    LET c == ix_files[n].content
                    IN /\ c.parses
                       /\ c.id = i /\ i # None
                       /\ c.ruc_emisor = r /\ r # None
                       /\ Contains(i, "-")

\* two records of one issuer with different ids
C15_Witness ==
    /\ ipc = "done"
    /\ \E r \in DOMAIN idx : Cardinality(idx[r]) = 2

----------------------------------------------------------------------------
\* _best_by_numeric_suffix (utils/core.py, inside validar_confirming_excel)

\* str.upper
UpperMap ==
    [c \in { CharAt(LowerLetters, i) : i \in 1..26 } |->
        CharAt(UpperLetters, CHOOSE i \in 1..26 : CharAt(LowerLetters, i) = c)]

UpperChar(c) == IF c \in DOMAIN UpperMap THEN UpperMap[c] ELSE c

RECURSIVE Upper(_)
Upper(s) == IF Len(s) = 0 THEN "" ELSE UpperChar(CharAt(s, 1)) \o Upper(SubSeq(s, 2, Len(s)))

\* str(s).strip() if s is not None else ""
_nz(s) == IF s = None THEN "" ELSE Strip(s)

\* _split_idfact: (None, None) unless the text splits in two at its first '-'
_split_idfact(idf) ==
    LET s == Upper(_nz(idf))
    IN IF Occurrences(s, "-") # {}
       THEN SplitFirst(s, "-") ELSE <<None, None>>

\* the count of: for i in range(1, max_len + 1): if cand_num[-i] == num_x[-i]
RECURSIVE CommonCount(_, _, _)
CommonCount(cand_num, num_x, i) ==
    IF i > Len(cand_num) \/ i > Len(num_x) THEN i - 1
    ELSE IF At(cand_num, Len(cand_num) - i + 1) = At(num_x, Len(num_x) - i + 1)
         THEN CommonCount(cand_num, num_x, i + 1)
         ELSE i - 1

\* mutant: a candidate replaces the best one only with a longer common suffix
RECURSIVE BestLoop_NoTieBreak(_, _, _)
BestLoop_NoTieBreak(num_x, order, st) ==
    IF order = <<>> THEN st.best
    ELSE LET cand == Head(order)
             cand_num == _split_idfact(cand)[2]
             common == CommonCount(cand_num, num_x, 1)
         IN IF ~Truthy(cand_num) THEN BestLoop_NoTieBreak(num_x, Tail(order), st)
            ELSE IF common > st.best_suffix
            THEN BestLoop_NoTieBreak(num_x, Tail(order),
                     [best |-> cand, best_suffix |-> common, best_num_len |-> Len(cand_num)])
            ELSE BestLoop_NoTieBreak(num_x, Tail(order), st)

\* for cand in candidatos, in the order the set is iterated
RECURSIVE BestLoop(_, _, _)
BestLoop(num_x, order, st) ==
    IF order = <<>> THEN st.best
    ELSE LET cand == Head(order)
             cand_num == _split_idfact(cand)[2]
             common == CommonCount(cand_num, num_x, 1)
         IN IF ~Truthy(cand_num) THEN BestLoop(num_x, Tail(order), st)
            ELSE IF \/ common > st.best_suffix
                    \/ common = st.best_suffix /\ Len(cand_num) > st.best_num_len
            THEN BestLoop(num_x, Tail(order),
                     [best |-> cand, best_suffix |-> common, best_num_len |-> Len(cand_num)])
            ELSE BestLoop(num_x, Tail(order), st)

\* `order` is the sequence in which the set candidatos is iterated
_best_by_numeric_suffix(numero, order) ==
    IF order = <<>> THEN None
    ELSE BestLoop(_nz(numero), order,
                  [best |-> None, best_suffix |-> -1, best_num_len |-> -1])

\* the orders in which a set may be iterated
Orders(S) ==
    { f \in [1..Cardinality(S) -> S] : \A a, b \in 1..Cardinality(S) : a # b => f[a] # f[b] }

\* Inputs of the reconciler
DeclaredNumbers == {"5905", "15905", "123", "7", "0"}
CandidateIds == {"F001-00005905", "F001-15905", "F002-15905", "F001-00000123", "B002-7"}

SInit ==
    /\ CIdle /\ MIdle /\ EIdle /\ IIdle /\ VIdle /\ WIdle
    /\ numero_excel \in DeclaredNumbers
    /\ candidatos \in SUBSET CandidateIds
    /\ spc = "call"
    /\ best = ""

\* elegido = _best_by_numeric_suffix(numero_x, cand_set)
CallBest ==
    /\ spc = "call"
    /\ \E order \in Orders(candidatos) : best' = _best_by_numeric_suffix(numero_excel, order)
    /\ spc' = "done"
    /\ UNCHANGED <<numero_excel, candidatos>>
    /\ UNCHANGED notReconciler

SNext == CallBest

SpecSuffix == SInit /\ [][SNext]_vars

\* the number part of a full id, and the length of the longest string that
\* ends both a and b
NumberOf(id) == SplitFirst(id, "-")[2]
CommonSuffixLen(a, b) ==
    LET ns == { n \in 0..Len(a) : n <= Len(b) /\ Sub(a, Len(a) - n + 1, Len(a)) = Sub(b, Len(b) - n + 1, Len(b)) }
    IN CHOOSE n \in ns : \A h \in ns : h <= n

\* C16: with a non-empty candidate set the value returned is a candidate
\* whose number has the greatest common-suffix length with the declared
\* string and, among those, a longest number; declared 5905 against
\* {F001-00005905, F001-15905} returns F001-00005905.
C16_BestSuffixThenLongest ==
    (spc = "done" /\ candidatos # {}) =>
        /\ best \in candidatos
        /\ \A c \in candidatos :
              LET lb == CommonSuffixLen(NumberOf(best), numero_excel)
                  lc == CommonSuffixLen(NumberOf(c), numero_excel)
              IN /\ lc <= lb
                 /\ lc = lb => Len(NumberOf(c)) <= Len(NumberOf(best))
        /\ (numero_excel = "5905" /\ candidatos = {"F001-00005905", "F001-15905"}) =>
              best = "F001-00005905"

\* the example of the claim
C16_Witness ==
    /\ spc = "done"
    /\ numero_excel = "5905"
    /\ candidatos = {"F001-00005905", "F001-15905"}
    /\ best = "F001-00005905"

----------------------------------------------------------------------------
\* validar_confirming_excel (utils/core.py): the validators of a row.
\* A cell is a string, NaN (an empty cell, as pandas reads it) or DateTime (a
\* cell Excel stores as a date); row.get gives None for a column the sheet
\* does not have. Diacritics are left out of the strings.

NaN == "<NaN>"
DateTime == "<datetime>"

\* str(v)
Str(v) ==
    IF v = NaN THEN "nan"
    ELSE IF v = DateTime THEN "2025-01-31 00:00:00"
    ELSE IF v = None THEN "None"
    ELSE v

\* isinstance(v, str)
IsStr(v) == v \notin {NaN, DateTime, None}

\* nz: str(s).strip() if s is not None else ""
nz(s) == IF s = None THEN "" ELSE Strip(Str(s))

\* norm_upper: nz(s).upper()
norm_upper(s) == Upper(nz(s))

\* limpiar_numero: re.sub(r'\D', '', str(s) if s is not None else '')
limpiar_numero(s) == IF s = None THEN "" ELSE OnlyDigits(Str(s))

\* mutant: the value itself must be 11 digits
validar_ruc_Strict(ruc) == Len(Str(ruc)) = 11 /\ AllIn(Str(ruc), DigitChars)

validar_ruc(ruc) == Len(limpiar_numero(ruc)) = 11

validar_razon_social(rs) == IsStr(rs) /\ Strip(rs) # ""

validar_moneda(moneda) == IsStr(moneda) /\ norm_upper(moneda) \in {"PEN", "USD"}

\* str.replace(",", "")
RECURSIVE RemoveCommas(_)
RemoveCommas(s) ==
    IF Len(s) = 0 THEN ""
    ELSE (IF CharAt(s, 1) = "," THEN "" ELSE CharAt(s, 1))
            \o RemoveCommas(SubSeq(s, 2, Len(s)))

\* str.lstrip("'")
RECURSIVE LStripQuote(_)
LStripQuote(s) ==
    IF Len(s) > 0 /\ CharAt(s, 1) = "'" THEN LStripQuote(SubSeq(s, 2, Len(s))) ELSE s

\* float(s) does not raise: an optional sign and digits with at most one
\* point, or nan / inf (exponents are left out)
IsFloat(s) ==
    LET t == Strip(s)
        u == IF Len(t) > 0 /\ CharAt(t, 1) \in {"+", "-"} THEN SubSeq(t, 2, Len(t)) ELSE t
    IN \/ Lower(u) \in {"nan", "inf", "infinity"}
       \/ /\ AllIn(u, DigitChars \cup {"."})
          /\ Cardinality(Occurrences(u, ".")) <= 1
          /\ OnlyDigits(u) # ""

validar_monto(monto) == IsFloat(LStripQuote(Strip(RemoveCommas(Str(monto)))))

\* the number a digit string writes
RECURSIVE ToInt(_)
ToInt(s) ==
    IF Len(s) = 0 THEN 0
    ELSE 10 * ToInt(SubSeq(s, 1, Len(s) - 1))
         + (CHOOSE d \in 0..9 : CharAt(DigitString, d + 1) = CharAt(s, Len(s)))

\* datetime.strptime(s, fmt) does not raise, for a format made of year, month
\* and day joined by sep (yearAt: the place of the year, 1 or 3); the length
\* of each month is left out
ParsesAs(s, sep, yearAt) ==
    /\ Cardinality(Occurrences(s, sep)) = 2
    /\ LET a == SplitFirst(s, sep)
           b == SplitFirst(a[2], sep)
           f == <<a[1], b[1], b[2]>>
           y == f[yearAt]
           m == f[2]
           d == f[4 - yearAt]
       IN /\ Len(y) = 4 /\ AllIn(y, DigitChars)
          /\ Len(m) \in 1..2 /\ AllIn(m, DigitChars) /\ ToInt(m) \in 1..12
          /\ Len(d) \in 1..2 /\ AllIn(d, DigitChars) /\ ToInt(d) \in 1..31

\* "%Y-%m-%d", "%d/%m/%Y", "%d-%m-%Y", "%Y/%m/%d"
validar_fecha(fecha) ==
    \/ fecha = DateTime
    \/ /\ IsStr(fecha)
       /\ \/ ParsesAs(Strip(fecha), "-", 1)
          \/ ParsesAs(Strip(fecha), "/", 3)
          \/ ParsesAs(Strip(fecha), "-", 3)
          \/ ParsesAs(Strip(fecha), "/", 1)

banco_tipo(cta_banco) ==
    LET b == norm_upper(cta_banco)
    IN IF b = "BCP" THEN "BCP" ELSE IF b = "BBVA" THEN "BBVA" ELSE "OTRO"

\* str.isdigit
IsDigit(s) == Len(s) > 0 /\ AllIn(s, DigitChars)

\* mutant: the leading apostrophes of the account are kept
validar_cta_bancaria_NoQuote(cta, banco_norm) ==
    LET cta_str == Strip(Str(cta))
    IN IF banco_norm = "OTRO" THEN TRUE
       ELSE IF cta = None \/ Strip(Str(cta)) = "" THEN FALSE
       ELSE IF ~IsDigit(cta_str) THEN FALSE
       ELSE IF banco_norm = "BCP" THEN Len(cta_str) \in {13, 14}
       ELSE IF banco_norm = "BBVA" THEN Len(cta_str) = 18
       ELSE FALSE

validar_cta_bancaria(cta, banco_norm) ==
    LET cta_str == LStripQuote(Strip(Str(cta)))
    IN IF banco_norm = "OTRO" THEN TRUE
       ELSE IF cta = None \/ Strip(Str(cta)) = "" THEN FALSE
       ELSE IF ~IsDigit(cta_str) THEN FALSE
       ELSE IF banco_norm = "BCP" THEN Len(cta_str) \in {13, 14}
       ELSE IF banco_norm = "BBVA" THEN Len(cta_str) = 18
       ELSE FALSE

validar_cci(cci) == Len(limpiar_numero(cci)) = 20

TiposCuenta == {"CORRIENTE", "AHORROS", "AHORRO"}

validar_tipo_cuenta_para_banco(tipo, banco_norm) ==
    IF banco_norm = "OTRO"
    THEN IF tipo = None \/ Strip(Str(tipo)) = "" THEN TRUE ELSE norm_upper(tipo) \in TiposCuenta
    ELSE IsStr(tipo) /\ norm_upper(tipo) \in TiposCuenta

\* re.match(r'^[A-Z0-9]{1,4}-\d{1,}$', doc, flags=re.IGNORECASE)
DocumentoShape(doc) ==
    /\ Occurrences(doc, "-") # {}
    /\ LET p == SplitFirst(doc, "-") IN
       /\ Len(p[1]) \in 1..4 /\ AllIn(p[1], AlnumChars)
       /\ Len(p[2]) >= 1 /\ AllIn(p[2], DigitChars)

\* _parse_doc_numero_only: the digits after the hyphen, None without the shape
_parse_doc_numero_only(doc_str) ==
    LET s == Upper(nz(doc_str))
    IN IF DocumentoShape(s) THEN SplitFirst(s, "-")[2] ELSE None

----------------------------------------------------------------------------
\* validar_confirming_excel: the reconciliation loop, the validation loop and
\* the partition of the valid rows into sheets.

MaxRows == 2

ErrRuc == "RUC invalido (11 digitos)"
ErrRazon == "Razon Social vacia"
ErrDocumento == "Documento invalido (SERIE-NUMERO)"
ErrFecha == "Fecha invalida"
ErrMoneda == "Moneda invalida (PEN/USD)"
ErrMonto == "Monto invalido"
ErrBanco == "Banco vacio"
ErrCuenta == "Cuenta invalida (BCP 13-14 dig., BBVA 18 dig.)"
ErrCci == "CCI invalido (20 digitos)"
ErrTipoCuenta == "Tipo de cuenta invalido (corriente/ahorros)"
ErrTipoCuentaOtro == "Tipo de cuenta invalido (solo vacio o corriente/ahorros)"
ErrCruce == "Documento no coincide con XML para el RUC"

\* a row of the sheet; the columns no claim varies hold a valid value
ExcelRow(ruc, doc, moneda, banco, cta) ==
    [RUC |-> ruc, RazonSocial |-> "ACME SAC", Documento |-> doc, Vence |-> "31/01/2025",
     Moneda |-> moneda, Monto |-> "1,000.50", Banco |-> banco, CtaBancaria |-> cta,
     CCI |-> "00219300123456789012", TipoCuenta |-> "Corriente"]

ExcelRows ==
    { ExcelRow("20123456789", "F001-5905", "PEN", "BCP", "1234567890123"),
      ExcelRow("20123456789", "F001-00005905", "usd", "BCP", "12345678901234"),
      ExcelRow("20123456789", "F001-99", " USD", "BBVA", "123456789012345678"),
      ExcelRow("20123456789", "F00100005905", "PEN", "Interbank", ""),
      ExcelRow("12345678901", "F001-00005905", "USD", "Interbank", NaN),
      ExcelRow("1234567890", "F001-5905", "EUR", "BCP", "123"),
      ExcelRow("20-123456789", "f001-15905", "PEN", "bcp ", "'1234567890123"),
      ExcelRow("2012345678A", "F001-15905", "PEN", "BBVA", "1234567890123"),
      ExcelRow(NaN, NaN, NaN, "BCP", NaN),
      ExcelRow("20123456789", "F001-00A", "PEN", "BCP", "123456789012345"),
      ExcelRow("20123456789", "F001-5905", "PEN", "BCP", "123456789012"),
      ExcelRow("20123456789", "F001-5905", "PEN", "BBVA", "12345678901234567"),
      ExcelRow("20123456789", "F001-5905", "PEN", "BBVA", "1234567890123456789"),
      ExcelRow("20123456789", "F001-5905", "PEN", "BCP", "12345678901A3"),
      ExcelRow("20123456789", "F001-5905", "PEN", "Scotiabank", "abc"),
      [ExcelRow("20123456789", "F001-5905", "PEN", NaN, "1234567890123")
          EXCEPT !.RazonSocial = " ", !.Vence = "2025-13-01", !.Monto = "mil",
                 !.CCI = "123", !.TipoCuenta = NaN] }

\* the indexes build_id_facturas_por_ruc can return; the empty one also
\* stands for the default None
Indexes ==
    { <<>>,
      [r \in {"20123456789"} |-> {"F001-00005905", "F001-15905"}],
      [r \in {"20123456789", "20999999999"} |-> {"F001-00000123"}],
      [r \in {"20123456789"} |-> {"F001-15905", "F002-15905"}] }

\* dict.get(ruc, set())
IndexGet(index, ruc) == IF ruc \in DOMAIN index THEN index[ruc] ELSE {}

\* df["Documento_Original"] = df["Documento"]
WithOriginal(rows) ==
    [i \in 1..Len(rows) |->
        [c \in DOMAIN rows[i] \cup {"Documento_Original"} |->
            IF c = "Documento_Original" THEN rows[i].Documento ELSE rows[i][c]]]

VInit ==
    /\ CIdle /\ MIdle /\ EIdle /\ IIdle /\ SIdle /\ WIdle
    /\ id_facturas_por_ruc \in Indexes
    /\ \E n \in 0..MaxRows : \E rows \in [1..n -> ExcelRows] : df = WithOriginal(rows)
    /\ vpc = "reconcile"
    /\ vi = 0
    /\ errores_val = <<>>
    /\ sheets = <<>>

\* mutant: the candidate replaces the Documento only when its series is the
\* declared one
ReconcileRow_SameSeries ==
    /\ vpc = "reconcile"
    /\ id_facturas_por_ruc # <<>>
    /\ vi < Len(df)
    /\ LET row == df[vi + 1]
           ruc == limpiar_numero(row.RUC)
           numero_x == _parse_doc_numero_only(row.Documento)
           cand_set == IndexGet(id_facturas_por_ruc, ruc)
       IN IF ~validar_ruc(ruc) \/ numero_x = None
          THEN df' = df
          ELSE \E order \in Orders(cand_set) :
                  LET elegido == _best_by_numeric_suffix(numero_x, order)
                  IN df' = IF elegido # None
                              /\ _split_idfact(elegido)[1] = _split_idfact(row.Documento)[1]
                           THEN [df EXCEPT ![vi + 1].Documento = elegido]
                           ELSE df
    /\ vi' = vi + 1
    /\ UNCHANGED <<id_facturas_por_ruc, vpc, errores_val, sheets>>
    /\ UNCHANGED notValidator

\* one row of the loop "for i, row in df.iterrows()" under "if id_facturas_por_ruc"
ReconcileRow ==
    /\ vpc = "reconcile"
    /\ id_facturas_por_ruc # <<>>
    /\ vi < Len(df)
    /\ LET row == df[vi + 1]
           ruc == limpiar_numero(row.RUC)
           numero_x == _parse_doc_numero_only(row.Documento)
           cand_set == IndexGet(id_facturas_por_ruc, ruc)
       IN IF ~validar_ruc(ruc) \/ numero_x = None
          THEN df' = df
          ELSE \E order \in Orders(cand_set) :
                  LET elegido == _best_by_numeric_suffix(numero_x, order)
                  IN df' = IF elegido # None
                           THEN [df EXCEPT ![vi + 1].Documento = elegido]
                           ELSE df
    /\ vi' = vi + 1
    /\ UNCHANGED <<id_facturas_por_ruc, vpc, errores_val, sheets>>
    /\ UNCHANGED notValidator

\* the reconciliation loop is over, or the index is empty and it is skipped
EndReconcile ==
    /\ vpc = "reconcile"
    /\ id_facturas_por_ruc = <<>> \/ vi = Len(df)
    /\ vpc' = "validate"
    /\ vi' = 0
    /\ UNCHANGED <<id_facturas_por_ruc, df, errores_val, sheets>>
    /\ UNCHANGED notValidator

ErrIf(cond, msg) == IF cond THEN <<msg>> ELSE <<>>

\* lines 419-423: the cross-reference of the document with the index
CruceError(index, row) ==
    /\ index # <<>>
    /\ validar_ruc(row.RUC)
    /\ nz(row.Documento) # ""
    /\ LET cands == IndexGet(index, limpiar_numero(row.RUC))
       IN cands # {} /\ nz(row.Documento) \notin cands

\* fila_errores of one row
FilaErrores(index, row) ==
    LET doc == nz(row.Documento)
        banco_norm == banco_tipo(row.Banco)
    IN ErrIf(~validar_ruc(row.RUC), ErrRuc)
       \o ErrIf(~validar_razon_social(row.RazonSocial), ErrRazon)
       \o ErrIf(~DocumentoShape(doc), ErrDocumento)
       \o ErrIf(~validar_fecha(row.Vence), ErrFecha)
       \o ErrIf(~validar_moneda(row.Moneda), ErrMoneda)
       \o ErrIf(~validar_monto(row.Monto), ErrMonto)
       \o ErrIf(banco_norm \in {"BCP", "BBVA"}
                  /\ (~IsStr(row.Banco) \/ Strip(row.Banco) = ""), ErrBanco)
       \o ErrIf(~validar_cta_bancaria(row.CtaBancaria, banco_norm)
                  /\ banco_norm \in {"BCP", "BBVA"}, ErrCuenta)
       \o ErrIf(~validar_cci(row.CCI), ErrCci)
       \o ErrIf(~validar_tipo_cuenta_para_banco(row.TipoCuenta, banco_norm),
                IF banco_norm \in {"BCP", "BBVA"} THEN ErrTipoCuenta ELSE ErrTipoCuentaOtro)
       \o ErrIf(CruceError(index, row), ErrCruce)

\* mutant: the first row that fails ends the validation loop
ValidateRow_StopAtFailure ==
    /\ vpc = "validate"
    /\ vi < Len(df)
    /\ LET fila_errores == FilaErrores(id_facturas_por_ruc, df[vi + 1])
       IN /\ errores_val' = IF fila_errores # <<>>
                            THEN Append(errores_val, [fila |-> vi + 2, errores |-> fila_errores])
                            ELSE errores_val
          /\ vi' = IF fila_errores # <<>> THEN Len(df) ELSE vi + 1
    /\ UNCHANGED <<id_facturas_por_ruc, df, vpc, sheets>>
    /\ UNCHANGED notValidator

\* one row of the loop "for idx, row in df.iterrows()"; vi is its idx, from 0
ValidateRow ==
    /\ vpc = "validate"
    /\ vi < Len(df)
    /\ LET fila_errores == FilaErrores(id_facturas_por_ruc, df[vi + 1])
       IN errores_val' = IF fila_errores # <<>>
                         THEN Append(errores_val, [fila |-> vi + 2, errores |-> fila_errores])
                         ELSE errores_val
    /\ vi' = vi + 1
    /\ UNCHANGED <<id_facturas_por_ruc, df, vpc, sheets>>
    /\ UNCHANGED notValidator

\* fila_valida of the row of index row_name (row.name, from 0)
fila_valida(errs, row_name) == \A e \in 1..Len(errs) : errs[e].fila # row_name + 2

\* df_validado["Moneda"].astype(str).str.upper()
SheetOf(moneda) == Upper(Str(moneda))

\* the sheets written to validado_buffer: the rows (by idx + 1) of each one
WrittenSheets(rows, errs) ==
    LET valid == { i \in 1..Len(rows) : fila_valida(errs, i - 1) }
        monedas == { SheetOf(rows[i].Moneda) : i \in { j \in valid : rows[j].Moneda # NaN } }
    IN IF valid = {} THEN [m \in {"SIN_VALIDOS"} |-> {}]
       ELSE [m \in monedas |-> { i \in valid : SheetOf(rows[i].Moneda) = m }]

WriteSheets ==
    /\ vpc = "validate"
    /\ vi = Len(df)
    /\ sheets' = WrittenSheets(df, errores_val)
    /\ vpc' = "done"
    /\ UNCHANGED <<id_facturas_por_ruc, df, vi, errores_val>>
    /\ UNCHANGED notValidator

VNext == ReconcileRow \/ EndReconcile \/ ValidateRow \/ WriteSheets

SpecValidate == VInit /\ [][VNext]_vars

----------------------------------------------------------------------------
\* Claims on validar_confirming_excel.

\* the rows the validation loop has gone through
ValidatedRows == IF vpc = "done" THEN 1..Len(df)
                 ELSE IF vpc = "validate" THEN 1..vi ELSE {}

\* the messages recorded for row i (Fila Excel i + 1)
RowErrors(i) ==
    UNION { { errores_val[e].errores[m] : m \in 1..Len(errores_val[e].errores) } :
            e \in { x \in 1..Len(errores_val) : errores_val[x].fila = i + 1 } }

\* C17 (as the claim states it): with an index supplied and a valid RUC, a
\* row gets the cross-reference error exactly when its document, after the
\* reconciliation, is not in the id set the index holds for the RUC, an
\* absent RUC having the empty set.
C17_CrossErrorIffNotMember ==
    \A i \in ValidatedRows :
        (id_facturas_por_ruc # <<>> /\ validar_ruc(df[i].RUC))
        => (ErrCruce \in RowErrors(i)
            <=> nz(df[i].Documento)
                  \notin IndexGet(id_facturas_por_ruc, limpiar_numero(df[i].RUC)))

\* the number of digit characters of a text
DigitCount(s) == Cardinality({ p \in 1..Len(s) : CharAt(s, p) \in DigitChars })

\* C18 (as the claim states it): a RUC is accepted iff it is made of digits
\* only and has length 11.
C18_RucDigitsOnly ==
    \A i \in ValidatedRows :
        ErrRuc \notin RowErrors(i)
        <=> (AllIn(Str(df[i].RUC), DigitChars) /\ Len(Str(df[i].RUC)) = 11)

\* C18 (amended): a RUC is accepted iff its text holds exactly 11 digit
\* characters, whatever other characters stand between them.
C18_RucElevenDigitsAmongOthers ==
    \A i \in ValidatedRows :
        ErrRuc \notin RowErrors(i) <=> DigitCount(Str(df[i].RUC)) = 11

\* a validated row whose RUC holds a non-digit and 11 digits, accepted
C18_Witness ==
    \E i \in ValidatedRows :
        /\ ~AllIn(Str(df[i].RUC), DigitChars)
        /\ DigitCount(Str(df[i].RUC)) = 11
        /\ ErrRuc \notin RowErrors(i)

\* the account the length rule looks at: the text without the blanks around
\* it and without its leading apostrophes
AccountCore(v) == LStripQuote(Strip(Str(v)))

\* the lengths the bank class allows
AccountLengths(clase) == IF clase = "BCP" THEN {13, 14} ELSE {18}

\* C19 (as the claim states it): for BCP the account is valid iff present,
\* digits only and of length 13 or 14, for BBVA iff present, digits only and
\* of length 18; a row of class OTRO never gets the account error.
C19_AccountDigitsOnly ==
    \A i \in ValidatedRows :
        LET clase == banco_tipo(df[i].Banco)
            cta == df[i].CtaBancaria
        IN IF clase = "OTRO" THEN ErrCuenta \notin RowErrors(i)
           ELSE ErrCuenta \notin RowErrors(i)
                <=> (cta # NaN /\ IsDigit(cta) /\ Len(cta) \in AccountLengths(clase))

\* C19 (amended): the rule applies to the account without the blanks around
\* it and without its leading apostrophes: that text must be digits only, of
\* length 13 or 14 for BCP and 18 for BBVA; a row of class OTRO never gets
\* the account error.
C19_AccountCoreDigits ==
    \A i \in ValidatedRows :
        LET clase == banco_tipo(df[i].Banco)
            core == AccountCore(df[i].CtaBancaria)
        IN IF clase = "OTRO" THEN ErrCuenta \notin RowErrors(i)
           ELSE ErrCuenta \notin RowErrors(i)
                <=> (IsDigit(core) /\ Len(core) \in AccountLengths(clase))

\* a validated BCP row whose account starts with an apostrophe, accepted, and
\* a validated row of class OTRO whose account is not made of digits
C19_Witness ==
    /\ \E i \in ValidatedRows :
          /\ banco_tipo(df[i].Banco) = "BCP"
          /\ CharAt(Str(df[i].CtaBancaria), 1) = "'"
          /\ ErrCuenta \notin RowErrors(i)
    /\ \E i \in ValidatedRows :
          /\ banco_tipo(df[i].Banco) = "OTRO"
          /\ ~IsDigit(Str(df[i].CtaBancaria))

\* the rows fila_valida keeps
ValidRows == { i \in 1..Len(df) : RowErrors(i) = {} }

\* the sheets that hold row i
SheetsOf(i) == { m \in DOMAIN sheets : i \in sheets[m] }

\* C20 (as the claim states it): a currency is valid iff, trimmed and
\* upper-cased, it is PEN or USD; every valid row is written to exactly one
\* sheet, and two valid rows share a sheet iff their normalized currencies
\* are equal.
C20_GroupedByNormalizedCurrency ==
    vpc = "done" =>
        /\ \A i \in 1..Len(df) :
              ErrMoneda \notin RowErrors(i)
              <=> (IsStr(df[i].Moneda) /\ Upper(Strip(df[i].Moneda)) \in {"PEN", "USD"})
        /\ \A i \in ValidRows : Cardinality(SheetsOf(i)) = 1
        /\ \A i, j \in ValidRows :
              SheetsOf(i) = SheetsOf(j)
              <=> Upper(Strip(df[i].Moneda)) = Upper(Strip(df[j].Moneda))

\* the entries of the error report that name row i
ReportEntries(i) == { e \in 1..Len(errores_val) : errores_val[e].fila = i + 1 }

\* C21: once the sheets are written every row has been validated; a row
\* without error is in a sheet and has no entry in the error report; a row
\* with an error has exactly one entry, holding all its messages, and is in
\* no sheet, whatever the rows before it.
C21_ValidIffNoError ==
    vpc = "done" =>
        \A i \in 1..Len(df) :
            LET fila_errores == FilaErrores(id_facturas_por_ruc, df[i])
            IN IF fila_errores = <<>>
               THEN ReportEntries(i) = {} /\ SheetsOf(i) # {}
               ELSE /\ Cardinality(ReportEntries(i)) = 1
                    /\ \A e \in ReportEntries(i) : errores_val[e].errores = fila_errores
                    /\ SheetsOf(i) = {}

\* the sheets are written, the first row failed and the second one, validated
\* after it, has no error and is in a sheet
C21_Witness ==
    /\ vpc = "done"
    /\ Len(df) = 2
    /\ ReportEntries(1) # {}
    /\ SheetsOf(1) = {}
    /\ FilaErrores(id_facturas_por_ruc, df[2]) = <<>>
    /\ SheetsOf(2) # {}

\* the rows the reconciliation loop has gone through
ReconciledRows == IF vpc = "reconcile" /\ id_facturas_por_ruc # <<>> THEN 1..vi
                  ELSE IF vpc \in {"validate", "done"} /\ id_facturas_por_ruc # <<>>
                       THEN 1..Len(df) ELSE {}

\* the Documento a run leaves in a row when the set of the row's RUC is
\* iterated in the given order
DocumentoUnder(row, order) ==
    LET numero_x == _parse_doc_numero_only(row.Documento_Original)
        elegido == _best_by_numeric_suffix(numero_x, order)
    IN IF ~validar_ruc(row.RUC) \/ numero_x = None \/ elegido = None
       THEN row.Documento_Original
       ELSE elegido

\* C22 (as the claim states it): a second run on the same sheet and the same
\* index leaves the same Documento in every row: the Documento of a
\* reconciled row is the one every iteration order of the RUC's id set gives,
\* ties on suffix length and number length included.
C22_SameDocumentoEveryRun ==
    \A i \in ReconciledRows :
        \A order \in Orders(IndexGet(id_facturas_por_ruc, limpiar_numero(df[i].RUC))) :
            df[i].Documento = DocumentoUnder(df[i], order)

----------------------------------------------------------------------------
\* The sheets of the workbook: how validar_confirming_excel (utils/core.py)
\* and validar_confirming_nombres_desde_xml_excel (page 2) treat a sheet that
\* lacks columns. No XML is uploaded in this specification: the index of the
\* page function is empty.

MaxSheets == 2

SheetNames == <<"Hoja1", "Hoja2", "Hoja3", "Hoja4">>

\* required_cols
required_cols ==
    {"RUC", "Razon Social Proveedor", "Tipo Doc.", "Documento", "Vence", "Moneda",
     "Monto Neto a Pagar", "Banco", "Cta Bancaria", "CCI", "Tipo cuenta"}

\* a row of a sheet that has every required column
FullRow(ruc, doc) ==
    [c \in required_cols |->
        CASE c = "RUC" -> ruc
          [] c = "Razon Social Proveedor" -> "ACME SAC"
          [] c = "Tipo Doc." -> "FACT"
          [] c = "Documento" -> doc
          [] c = "Vence" -> "31/01/2025"
          [] c = "Moneda" -> "PEN"
          [] c = "Monto Neto a Pagar" -> "1,000.50"
          [] c = "Banco" -> "BCP"
          [] c = "Cta Bancaria" -> "1234567890123"
          [] c = "CCI" -> "00219300123456789012"
          [] c = "Tipo cuenta" -> "Corriente"]

\* the row without some columns
Without(row, cols) == [c \in DOMAIN row \ cols |-> row[c]]

\* the row with the column "Documento" under another header
Renamed(row, header) ==
    [c \in (DOMAIN row \ {"Documento"}) \cup {header} |->
        IF c = header THEN row["Documento"] ELSE row[c]]

\* the contents a sheet can have: its single row, whose domain is the header
SheetRows ==
    { FullRow("20123456789", "F001-5905"),
      FullRow("1234567890", "sin numero"),
      Without(FullRow("20123456789", "F001-5905"), {"Documento"}),
      Without(FullRow("20123456789", "F001-5905"), {"RUC"}),
      Without(FullRow("20123456789", "F001-5905"), {"Tipo Doc."}),
      [c \in {"Notas"} |-> "pendiente"],
      Renamed(FullRow("20123456789", "F001-5905"), " DOC") }

\* pd.ExcelFile: the sheets, named by their place
Workbooks ==
    UNION { { [i \in 1..n |-> [name |-> SheetNames[i], columns |-> DOMAIN w[i], rows |-> <<w[i]>>]] :
              w \in [1..n -> SheetRows] } : n \in 1..MaxSheets }

WInit ==
    /\ CIdle /\ MIdle /\ EIdle /\ IIdle /\ SIdle /\ VIdle
    /\ xls \in Workbooks
    /\ wpc \in {"core_select", "page_loop"}
    /\ hoja_obj = ""
    /\ core_errores = <<>>
    /\ core_sheets = <<>>
    /\ sh_n = 0
    /\ sheets_out = <<>>
    /\ errores_rows = <<>>

\* ---- validar_confirming_excel ----

\* lines 255-262: the first sheet that has every required column, else the
\* first sheet
CoreSelectSheet ==
    /\ wpc = "core_select"
    /\ LET ok == { i \in 1..Len(xls) : required_cols \subseteq xls[i].columns }
       IN hoja_obj' = IF ok # {} THEN xls[Min(ok)].name ELSE xls[1].name
    /\ wpc' = "core_read"
    /\ UNCHANGED <<xls, core_errores, core_sheets, sh_n, sheets_out, errores_rows>>
    /\ UNCHANGED notWorkbook

\* row.get(column)
RowGet(row, column) == IF column \in DOMAIN row THEN row[column] ELSE None

\* the row as the validators read it, after df["Tipo Doc."] = "FACT" and
\* df["Documento_Original"] = df["Documento"]
CoreRow(row) ==
    [RUC |-> RowGet(row, "RUC"), RazonSocial |-> RowGet(row, "Razon Social Proveedor"),
     Documento |-> RowGet(row, "Documento"), Vence |-> RowGet(row, "Vence"),
     Moneda |-> RowGet(row, "Moneda"), Monto |-> RowGet(row, "Monto Neto a Pagar"),
     Banco |-> RowGet(row, "Banco"), CtaBancaria |-> RowGet(row, "Cta Bancaria"),
     CCI |-> RowGet(row, "CCI"), TipoCuenta |-> RowGet(row, "Tipo cuenta"),
     Documento_Original |-> RowGet(row, "Documento")]

\* errores of the validation loop over the rows, without an index
CoreErrores(rows) ==
    LET failing == SelectSeq([i \in 1..Len(rows) |-> i],
                             LAMBDA i : FilaErrores(<<>>, rows[i]) # <<>>)
    IN [e \in 1..Len(failing) |->
           [fila |-> failing[e] + 1, errores |-> FilaErrores(<<>>, rows[failing[e]])]]

\* lines 263-453 on the chosen sheet: df["Documento"] raises KeyError when the
\* sheet has no such column; otherwise the rows are validated and written
CoreValidateSheet ==
    /\ wpc = "core_read"
    /\ LET sh == CHOOSE x \in { xls[i] : i \in 1..Len(xls) } : x.name = hoja_obj
           rows == [i \in 1..Len(sh.rows) |-> CoreRow(sh.rows[i])]
       IN IF "Documento" \notin sh.columns
          THEN /\ wpc' = "raised"
               /\ UNCHANGED <<core_errores, core_sheets>>
          ELSE /\ wpc' = "core_done"
               /\ core_errores' = CoreErrores(rows)
               /\ core_sheets' = WrittenSheets(rows, CoreErrores(rows))
    /\ UNCHANGED <<xls, hoja_obj, sh_n, sheets_out, errores_rows>>
    /\ UNCHANGED notWorkbook

\* ---- validar_confirming_nombres_desde_xml_excel ----

DocColumnNames ==
    {"documento", "doc", "documento ref", "numero doc", "numero de documento", "nro doc"}

\* _to_safe_str
_to_safe_str(v) ==
    IF v = None \/ v = NaN THEN ""
    ELSE IF Lower(Str(v)) = "nan" THEN "" ELSE Strip(Str(v))

\* str.replace of "/", "_" and " " by "-"
RECURSIVE Dashed(_)
Dashed(s) ==
    IF Len(s) = 0 THEN ""
    ELSE (IF CharAt(s, 1) \in {"/", "_", " "} THEN "-" ELSE CharAt(s, 1))
            \o Dashed(SubSeq(s, 2, Len(s)))

UpperChars == { CharAt(UpperLetters, i) : i \in 1..Len(UpperLetters) }

\* re.search(r"([A-Z]{1,3}\d{1,4})\D?(\d{1,12})", s) finds a match
SerieCorrFound(s) ==
    \E p \in 1..Len(s) : \E a \in 1..3 : \E b \in 1..4 : \E g \in 0..1 :
        /\ p + a + b + g <= Len(s)
        /\ AllIn(SubSeq(s, p, p + a - 1), UpperChars)
        /\ AllIn(SubSeq(s, p + a, p + a + b - 1), DigitChars)
        /\ g = 1 => CharAt(s, p + a + b) \notin DigitChars
        /\ CharAt(s, p + a + b + g) \in DigitChars

\* _parse_documento_excel returns a series and a number
DocumentoParsable(v) ==
    LET s == Upper(_to_safe_str(v))
    IN s # "" /\ SerieCorrFound(Dashed(s))

\* the columns whose header is a recognized name of "Documento"
DocColumns(columns) == { c \in columns : Lower(Strip(c)) \in DocColumnNames }

\* the row with the output columns the function adds when they are missing
WithOutputColumns(row) ==
    [c \in DOMAIN row \cup {"Nombre_XML", "Nombre_PDF", "Nombre Verificado"} |->
        IF c \in DOMAIN row THEN row[c] ELSE ""]

\* the observations of the rows of a sheet: with an empty index a row is
\* either not parsable or without a match (Fila is i + 2, from i = 0)
RowObservations(sh, doc_col) ==
    [i \in 1..Len(sh.rows) |->
        [Hoja |-> sh.name, Fila |-> i + 1,
         Motivo |-> IF DocumentoParsable(sh.rows[i][doc_col])
                    THEN "SIN_MATCH_XML" ELSE "DOC_NO_PARSABLE"]]

\* one sheet of the loop "for sh in xls.sheet_names"; Fila 0 stands for "-"
PageSheet ==
    /\ wpc = "page_loop"
    /\ sh_n < Len(xls)
    /\ LET sh == xls[sh_n + 1]
           out == [name |-> sh.name,
                   columns |-> sh.columns \cup {"Nombre_XML", "Nombre_PDF", "Nombre Verificado"},
                   rows |-> [i \in 1..Len(sh.rows) |-> WithOutputColumns(sh.rows[i])]]
       IN /\ sheets_out' = Append(sheets_out, out)
          /\ errores_rows' =
                IF DocColumns(sh.columns) = {}
                THEN Append(errores_rows,
                            [Hoja |-> sh.name, Fila |-> 0, Motivo |-> "SIN_COLUMNA_DOCUMENTO"])
                ELSE errores_rows
                     \o RowObservations(sh, CHOOSE c \in DocColumns(sh.columns) : TRUE)
    /\ sh_n' = sh_n + 1
    /\ UNCHANGED <<xls, wpc, hoja_obj, core_errores, core_sheets>>
    /\ UNCHANGED notWorkbook

\* the loop is over: the buffers are written and returned
PageReturn ==
    /\ wpc = "page_loop"
    /\ sh_n = Len(xls)
    /\ wpc' = "page_done"
    /\ UNCHANGED <<xls, hoja_obj, core_errores, core_sheets, sh_n, sheets_out, errores_rows>>
    /\ UNCHANGED notWorkbook

WNext == CoreSelectSheet \/ CoreValidateSheet \/ PageSheet \/ PageReturn

SpecWorkbook == WInit /\ [][WNext]_vars

\* C23 (as the claim states it): a sheet that lacks required columns never
\* makes the validation raise, is recorded as lacking them, gets no row-level
\* error and keeps its rows, and the other sheets are still processed.
C23_MissingColumnsPassedThrough ==
    /\ wpc # "raised"
    /\ wpc = "core_done" =>
          \A i \in 1..Len(xls) :
              (xls[i].name = hoja_obj /\ ~(required_cols \subseteq xls[i].columns))
              => core_errores = <<>>
    /\ wpc = "page_done" =>
          /\ Len(sheets_out) = Len(xls)
          /\ \A i \in 1..Len(xls) :
                DocColumns(xls[i].columns) = {} =>
                   /\ \E e \in 1..Len(errores_rows) :
                         /\ errores_rows[e].Hoja = xls[i].name
                         /\ errores_rows[e].Motivo = "SIN_COLUMNA_DOCUMENTO"
                   /\ \A e \in 1..Len(errores_rows) :
                         errores_rows[e].Hoja = xls[i].name => errores_rows[e].Fila = 0
                   /\ \A r \in 1..Len(xls[i].rows) : \A c \in xls[i].columns :
                         sheets_out[i].rows[r][c] = xls[i].rows[r][c]

----------------------------------------------------------------------------
\* Claims on the worklist as a whole.

\* the running total is the sum of the sizes of every entry ever placed on
\* the worklist and is within the ceiling, and so are the leaves emitted
BudgetHolds ==
    /\ total_bytes = SumSizes(AllEnqueued)
    /\ total_bytes <= MAX_TOTAL_BYTES
    /\ \A i \in InLog("budget") :
          /\ log[i].total_before + SumSizes(log[i].enqueued) + log[i].rejected
                > MAX_TOTAL_BYTES
          /\ Len(log[i].enqueued) = Len(log[i].yielded)
    /\ SumSizes(xml_files) + SumSizes(pdf_files) <= MAX_TOTAL_BYTES

\* C24: in every reachable state the running total equals the sum of the
\* sizes of all the entries ever placed on the worklist and is at most
\* MAX_TOTAL_BYTES, an entry that would push it over the ceiling is not
\* enqueued, the leaves emitted never sum to more than the ceiling, and no
\* step makes the running total decrease.
C24_BudgetInvariant ==
    /\ []BudgetHolds
    /\ [][total_bytes' >= total_bytes]_vars

\* an entry was refused for the ceiling after another entry of the same
\* container had been enqueued, and the call has returned
C24_Witness ==
    /\ cpc = "done"
    /\ \E i \in InLog("budget") : log[i].enqueued # <<>> /\ log[i].rejected > 0
    /\ total_bytes > 0

\* the number of "!/" separators of a composed name
Separators(name) == Cardinality(Occurrences(name, "!/"))

\* what holds of the depths in every state: an entry enqueued as a container
\* is one level deeper than the container it came from and any other entry is
\* at the same level, no item is deeper than max_depth, every leaf emitted has
\* at most max_depth separators, and the queue is what remains of the entries
\* enqueued, in their order
DepthsHold ==
    /\ \A i \in 1..Len(log) : \A j \in 1..Len(log[i].enqueued) :
          log[i].enqueued[j].depth =
              IF _is_archive(log[i].yielded[j].name) THEN log[i].depth + 1 ELSE log[i].depth
    /\ \A i \in 1..Len(AllEnqueued) : AllEnqueued[i].depth <= max_depth
    /\ \A i \in 1..Len(xml_files) : Separators(xml_files[i].filename) <= max_depth
    /\ \A i \in 1..Len(pdf_files) : Separators(pdf_files[i].filename) <= max_depth
    /\ QueueIsRest

\* C25 (as the claim states it): the depths hold, and once the call has
\* ended every item enqueued has been dequeued and the queue is empty.
C25_QueueEndsEmpty ==
    /\ DepthsHold
    /\ cpc \in {"done", "aborted"} => (q = <<>> /\ Processed = AllEnqueued)

\* C25 (amended): the depths hold and the call always ends; when it returns,
\* every item enqueued has been dequeued once and the queue is empty; when
\* the initial loop over the uploads aborts on the byte ceiling, the loop over
\* the worklist never runs and the uploads already enqueued stay in the queue.
C25_EndsAndDrainsOnReturn ==
    /\ []DepthsHold
    /\ <>(cpc \in {"done", "aborted"})
    /\ [](cpc = "done" => (q = <<>> /\ Processed = AllEnqueued))
    /\ [](cpc = "aborted" => (k < Len(uploads) /\ Processed = <<>>))

\* the call has returned a leaf that lies inside max_depth nested containers
\* and has pruned a container
C25_Witness ==
    /\ cpc = "done"
    /\ max_depth >= 1
    /\ \E i \in 1..Len(xml_files) : Separators(xml_files[i].filename) = max_depth
    /\ InLog("pruned") # {}

----------------------------------------------------------------------------
\* the lines of errores that carry the given message
ErrorLines(msg) == { n \in 1..Len(errores) : errores[n].msg = msg }

\* the text after the last "." of a path
Extension(path) == AfterLast(path, ".")

\* the path without its extension
Stem(path) == SubSeq(path, 1, Len(path) - Len(Extension(path)) - 1)

\* C26: after the run every XML record has exactly one outcome: the match
\* lines, the 'Sin PDF emparejado' lines and the 'No se pudo extraer ID o RUC'
\* lines add up to the number of records; the output holds, for the matched
\* records in input order, the record's .xml entry immediately followed by
\* its .pdf entry under the same name; and the error text is the all-matched
\* message exactly when no record failed.
C26_OneOutcomePerRecord ==
    mpc = "done" =>
        /\ (Len(matches_lines) - 1)
              + Cardinality(ErrorLines("Sin PDF emparejado"))
              + Cardinality(ErrorLines("No se pudo extraer ID o RUC")) = Len(in_xml)
        /\ Len(errores) = Cardinality({ a \in 1..Len(in_xml) : pareja[a] = 0 })
        /\ Len(resultado_ordenado) = 2 * (Len(matches_lines) - 1)
        /\ \A n \in 1..Len(PairedIdx) :
              /\ resultado_ordenado[2 * n - 1].content = in_xml[PairedIdx[n]].content
              /\ Extension(resultado_ordenado[2 * n - 1].path) = "xml"
              /\ Extension(resultado_ordenado[2 * n].path) = "pdf"
              /\ Stem(resultado_ordenado[2 * n].path) = Stem(resultado_ordenado[2 * n - 1].path)
        /\ \A n, m \in 1..Len(PairedIdx) : n < m => PairedIdx[n] < PairedIdx[m]
        /\ (reporte_errores_txt = <<[filename |-> "", msg |-> "Todos emparejados."]>>)
              <=> (\A a \in 1..Len(in_xml) : pareja[a] # 0)

\* two records, one whose extraction failed and one matched: a line each
C26_Witness ==
    /\ mpc = "done"
    /\ Len(in_xml) = 2
    /\ Cardinality(ErrorLines("No se pudo extraer ID o RUC")) = 1
    /\ Len(matches_lines) = 2
    /\ Len(resultado_ordenado) = 2

----------------------------------------------------------------------------
\* the series a document declares: the text before its first hyphen
SeriesOf(doc) == SplitFirst(Upper(nz(doc)), "-")[1]

\* the rows the reconciliation had to rewrite: valid RUC, a Documento of the
\* shape SERIES-digits, and an index that holds an id for the RUC
Reconcilable(i) ==
    /\ validar_ruc(df[i].RUC)
    /\ DocumentoShape(Upper(nz(df[i].Documento_Original)))
    /\ IndexGet(id_facturas_por_ruc, limpiar_numero(df[i].RUC)) # {}

\* C27: the reconciliation rewrites the Documento of every row with a valid
\* RUC, a Documento of the shape SERIES-digits and a RUC that has a candidate:
\* the row then holds one of the ids of the RUC, the one an iteration order of
\* the set selects, whatever its series; a row that gets the cross-reference
\* error also gets the document-shape error.
C27_CrossErrorOnlyWithShapeError ==
    /\ \A i \in ReconciledRows :
          Reconcilable(i) =>
             LET ids == IndexGet(id_facturas_por_ruc, limpiar_numero(df[i].RUC))
             IN /\ df[i].Documento \in ids
                /\ \E order \in Orders(ids) : df[i].Documento = DocumentoUnder(df[i], order)
    /\ \A i \in ReconciledRows :
          ~Reconcilable(i) => df[i].Documento = df[i].Documento_Original
    /\ \A i \in ValidatedRows :
          ErrCruce \in RowErrors(i) => ErrDocumento \in RowErrors(i)

\* a validated row whose Documento was replaced by an id of another series
\* and got no cross-reference error, and a validated row that got both the
\* cross-reference error and the shape error
C27_Witness ==
    /\ \E i \in ValidatedRows :
          /\ Reconcilable(i)
          /\ SeriesOf(df[i].Documento) # SeriesOf(df[i].Documento_Original)
          /\ ErrCruce \notin RowErrors(i)
    /\ \E i \in ValidatedRows :
          {ErrCruce, ErrDocumento} \subseteq RowErrors(i)

====
